---------------------------- MODULE Spec2Model ----------------------------
(***************************************************************************)
(* A model of compiler/rustc_expand/src/proc_macro_server.rs: the server   *)
(* side of the proc-macro bridge (token conversion, literal codec, span    *)
(* service, the Rustc facade).                                             *)
(*                                                                         *)
(* Text is a sequence of one-character strings, so that slicing,           *)
(* prefix tests and concatenation are computed as the code computes them.  *)
(* A Symbol is the text it interns.                                        *)
(***************************************************************************)
EXTENDS Integers, Sequences, FiniteSets, TLC

VARIABLES
    ecx,             \* Rustc.ecx: the data of the current expansion
    def_site,        \* Rustc.def_site
    call_site,       \* Rustc.call_site
    mixed_site,      \* Rustc.mixed_site
    krate,           \* Rustc.krate
    rebased_spans,   \* Rustc.rebased_spans : id -> Span (NoSpan: vacant entry)
    symbol_gallery,  \* ParseSess.symbol_gallery : set of [sym, span], first span kept
    frames,          \* the into_trees activations: Seq of [cursor, stack, tts]
    call,            \* the current or last bridge call: [op, arg, from, state, ret];
                     \* `from` is what the argument was converted from, if anything
    literal,         \* a Literal value held by the client (handle store)
    resolver_calls,  \* what get_proc_macro_quoted_span answered, per id, in call order
    client_group,    \* a Group value held by the client
    diags,           \* the Diagnostic values by handle; a handle is taken by emit
    emitted,         \* what span_diagnostic.emit_diagnostic was given, in order
    proc_macro_quoted_spans   \* ParseSess: the spans saved by save_proc_macro_span

rustc == <<ecx, def_site, call_site, mixed_site, krate>>

vars == <<rustc, rebased_spans, symbol_gallery, frames, call, literal, resolver_calls,
          client_group, diags, emitted, proc_macro_quoted_spans>>

(***************************************************************************)
(* Bounds of the model.                                                    *)
(***************************************************************************)
MaxStream == 2      \* longest top-level stream handed to into_trees

MaxPieces == 3      \* most lexical pieces (tokens, blanks, comments) in a from_str input

\* Positions are scaled down: a u32 (BytePos) has PosBits bits and a usize
\* twice as many, as 32 is to 64.
PosBits == 5

MaxResolverCalls == 3   \* most resolver consultations recorded per id

MaxDiagNodes == 3       \* most Diagnostic handles and children in the handle store

MaxExprTokens == 4      \* longest stream handed to expand_expr

(***************************************************************************)
(* Spans.  A span is a byte range with a hygiene context.                  *)
(***************************************************************************)
Sp(lo, hi, ctxt) == [lo |-> lo, hi |-> hi, ctxt |-> ctxt]

NoSpan == [lo |-> -1, hi |-> -1, ctxt |-> "none"]

NoCall == [op |-> "none", arg |-> <<>>, from |-> <<>>, state |-> "none", ret |-> <<>>]

NoLiteral == [lit |-> [kind |-> "none", symbol |-> <<>>, suffix |-> <<>>], span |-> NoSpan]

NoGroup == [tt |-> "none"]

\* A handle whose Diagnostic was taken out of the store.
Taken == [level |-> "taken", message |-> <<>>, span |-> <<>>, children |-> <<>>]

\* DelimSpan::from_single
DelimSpanFromSingle(span) == [open |-> span, close |-> span]

\* The spans tokens of the modelled streams carry.
TokenSpans == {Sp(0, 3, "root"), Sp(4, 6, "call")}

(***************************************************************************)
(* token::Lit                                                              *)
(***************************************************************************)
None == <<"None">>

Some(x) == <<"Some", x>>

Lit(kind, symbol, suffix) == [kind |-> kind, symbol |-> symbol, suffix |-> suffix]

(***************************************************************************)
(* Text helpers.                                                           *)
(***************************************************************************)
RECURSIVE Concat(_)
Concat(ss) == IF ss = <<>> THEN <<>> ELSE Head(ss) \o Concat(Tail(ss))

\* str::starts_with(ch)
StartsWith(s, ch) == Len(s) > 0 /\ s[1] = ch

\* &s[1..]
DropFirst(s) == SubSeq(s, 2, Len(s))

\* &s[..n]
Prefix(s, n) == SubSeq(s, 1, n)

SeqsUpTo(S, n) == UNION {[1..k -> S] : k \in 0..n}

(***************************************************************************)
(* char::escape_debug, on the characters of the model's alphabet.  "NL" is *)
(* a line feed, "BS" a backslash, "DQ" a double quote.                     *)
(***************************************************************************)
EscapeDebug(ch) ==
    CASE ch = "NL" -> <<"BS", "n">>
      [] ch = "BS" -> <<"BS", "BS">>
      [] ch = "DQ" -> <<"BS", "DQ">>
      [] ch = "'" -> <<"BS", "'">>
      [] OTHER -> <<ch>>

RECURSIVE EscapeAll(_)
EscapeAll(s) == IF s = <<>> THEN <<>> ELSE EscapeDebug(Head(s)) \o EscapeAll(Tail(s))

(***************************************************************************)
(* Identifier lexing rules used by Ident::new.  "e" followed by the        *)
(* combining acute "CA" composes to "E'" under NFC.                        *)
(***************************************************************************)
IdStart == {"a", "b", "d", "o", "c", "e", "E'", "s", "_"}

IdContinue == IdStart \cup {"1", "CA"}

RECURSIVE nfc_normalize(_)
nfc_normalize(s) ==
    IF s = <<>> THEN <<>>
    ELSE IF Len(s) >= 2 /\ s[1] = "e" /\ s[2] = "CA"
         THEN <<"E'">> \o nfc_normalize(SubSeq(s, 3, Len(s)))
         ELSE <<Head(s)>> \o nfc_normalize(Tail(s))

is_ident(s) ==
    /\ Len(s) > 0
    /\ s[1] \in IdStart
    /\ \A i \in 2..Len(s) : s[i] \in IdContinue

kw_DollarCrate == <<"$", "c">>

kw_SelfLower == <<"s">>

kw_Underscore == <<"_">>

sym_doc == <<"d", "o", "c">>

\* Symbol::can_be_raw
can_be_raw(sym) == sym \notin {<<>>, kw_Underscore, kw_SelfLower, kw_DollarCrate}

\* symbol_gallery.insert: the first span seen for a symbol is kept
GalleryInsert(gallery, sym, span) ==
    IF \E e \in gallery : e.sym = sym THEN gallery
    ELSE gallery \cup {[sym |-> sym, span |-> span]}

\* (a variant that accepts any valid identifier as raw)
IdentNewDropsRaw(gallery, sym0, is_raw, span) ==
    LET sym == nfc_normalize(sym0) IN
    IF ~is_ident(sym)
    THEN [panic |-> "not a valid identifier", ident |-> <<>>, gallery |-> gallery]
    ELSE [panic |-> "",
          ident |-> [tt |-> "Ident", sym |-> sym, is_raw |-> is_raw, span |-> span],
          gallery |-> GalleryInsert(gallery, sym, span)]

\* Ident::new: [panic, ident, gallery]
IdentNew(gallery, sym0, is_raw, span) ==
    LET sym == nfc_normalize(sym0) IN
    IF ~is_ident(sym)
    THEN [panic |-> "not a valid identifier", ident |-> <<>>, gallery |-> gallery]
    ELSE IF is_raw /\ ~can_be_raw(sym)
    THEN [panic |-> "cannot be a raw identifier", ident |-> <<>>, gallery |-> gallery]
    ELSE [panic |-> "",
          ident |-> [tt |-> "Ident", sym |-> sym, is_raw |-> is_raw, span |-> span],
          gallery |-> GalleryInsert(gallery, sym, span)]

\* Ident::dollar_crate
IdentDollarCrate(span) ==
    [tt |-> "Ident", sym |-> kw_DollarCrate, is_raw |-> FALSE, span |-> span]

(***************************************************************************)
(* Internal token trees (rustc_ast::tokenstream).                          *)
(***************************************************************************)
K(k) == [k |-> k]

BinOp(op) == [k |-> "BinOp", op |-> op]

BinOpEq(op) == [k |-> "BinOpEq", op |-> op]

KIdent(name, is_raw) == [k |-> "Ident", name |-> name, is_raw |-> is_raw]

KLifetime(name) == [k |-> "Lifetime", name |-> name]

KLiteral(lit) == [k |-> "Literal", lit |-> lit]

KDocComment(attr_style, data) == [k |-> "DocComment", attr_style |-> attr_style, data |-> data]

\* Interpolated(NtIdent(ident, is_raw))
KNtIdent(name, is_raw, span) ==
    [k |-> "Interpolated", nt |-> "NtIdent", name |-> name, is_raw |-> is_raw, span |-> span]

\* Interpolated(nt) for any other nonterminal: `stream` is what
\* TokenStream::from_nonterminal_ast gives, `hack` what
\* nt_pretty_printing_compatibility_hack answers for it.
KNt(stream, hack) == [k |-> "Interpolated", nt |-> "Nt", stream |-> stream, hack |-> hack]

\* tokenstream::TokenTree::token(kind, span)
Token(kind, span) == [tree |-> "Token", kind |-> kind, span |-> span]

Delimited(span, delim, tts) == [tree |-> "Delimited", span |-> span, delim |-> delim, tts |-> tts]

TreeAndSpacing(tree, spacing) == [tree |-> tree, spacing |-> spacing]

\* impl From<TokenTree> for TokenStream: one tree, Alone
Into(tree) == <<TreeAndSpacing(tree, "Alone")>>

(***************************************************************************)
(* pm::Delimiter <-> token::Delimiter                                      *)
(***************************************************************************)
DelimiterFromInternal(delim) ==
    CASE delim = "Parenthesis" -> "Parenthesis"
      [] delim = "Brace" -> "Brace"
      [] delim = "Bracket" -> "Bracket"
      [] delim = "Invisible" -> "None"

DelimiterToInternal(delimiter) ==
    CASE delimiter = "Parenthesis" -> "Parenthesis"
      [] delimiter = "Brace" -> "Brace"
      [] delimiter = "Bracket" -> "Bracket"
      [] delimiter = "None" -> "Invisible"

(***************************************************************************)
(* Client token trees (pm::bridge::TokenTree).                             *)
(***************************************************************************)
Punct(ch, joint, span) == [tt |-> "Punct", ch |-> ch, joint |-> joint, span |-> span]

Literal(lit, span) == [tt |-> "Literal", lit |-> lit, span |-> span]

Group(delimiter, stream, span, flatten) ==
    [tt |-> "Group", delimiter |-> delimiter, stream |-> stream, span |-> span,
     flatten |-> flatten]

(***************************************************************************)
(* The operator table of from_internal: the characters handed to op!.      *)
(***************************************************************************)
BinOpChar(op) ==
    CASE op = "Plus" -> "+"
      [] op = "Minus" -> "-"
      [] op = "Star" -> "*"
      [] op = "Slash" -> "/"
      [] op = "Percent" -> "%"
      [] op = "Caret" -> "^"
      [] op = "And" -> "&"
      [] op = "Or" -> "|"

OpChars(kind) ==
    CASE kind.k = "Eq" -> <<"=">>
      [] kind.k = "Lt" -> <<"<">>
      [] kind.k = "Le" -> <<"<", "=">>
      [] kind.k = "EqEq" -> <<"=", "=">>
      [] kind.k = "Ne" -> <<"!", "=">>
      [] kind.k = "Ge" -> <<">", "=">>
      [] kind.k = "Gt" -> <<">">>
      [] kind.k = "AndAnd" -> <<"&", "&">>
      [] kind.k = "OrOr" -> <<"|", "|">>
      [] kind.k = "Not" -> <<"!">>
      [] kind.k = "Tilde" -> <<"~">>
      [] kind.k = "BinOp" /\ kind.op = "Shl" -> <<"<", "<">>
      [] kind.k = "BinOp" /\ kind.op = "Shr" -> <<">", ">">>
      [] kind.k = "BinOp" /\ kind.op \notin {"Shl", "Shr"} -> <<BinOpChar(kind.op)>>
      [] kind.k = "BinOpEq" /\ kind.op = "Shl" -> <<"<", "<", "=">>
      [] kind.k = "BinOpEq" /\ kind.op = "Shr" -> <<">", ">", "=">>
      [] kind.k = "BinOpEq" /\ kind.op \notin {"Shl", "Shr"} -> <<BinOpChar(kind.op), "=">>
      [] kind.k = "At" -> <<"@">>
      [] kind.k = "Dot" -> <<".">>
      [] kind.k = "DotDot" -> <<".", ".">>
      [] kind.k = "DotDotDot" -> <<".", ".", ".">>
      [] kind.k = "DotDotEq" -> <<".", ".", "=">>
      [] kind.k = "Comma" -> <<",">>
      [] kind.k = "Semi" -> <<";">>
      [] kind.k = "Colon" -> <<":">>
      [] kind.k = "ModSep" -> <<":", ":">>
      [] kind.k = "RArrow" -> <<"-", ">">>
      [] kind.k = "LArrow" -> <<"<", "-">>
      [] kind.k = "FatArrow" -> <<"=", ">">>
      [] kind.k = "Pound" -> <<"#">>
      [] kind.k = "Dollar" -> <<"$">>
      [] kind.k = "Question" -> <<"?">>
      [] kind.k = "SingleQuote" -> <<"'">>
      [] OTHER -> <<>>

(***************************************************************************)
(* The op! macro.  A conversion answers [panic, tt, pushed, gallery]:      *)
(* `pushed` lists what it pushed on the stack, in push order.              *)
(***************************************************************************)
Conv(tt, pushed, gallery) ==
    [panic |-> "", tt |-> tt, pushed |-> pushed, gallery |-> gallery]

ConvPanic(msg, gallery) ==
    [panic |-> msg, tt |-> <<>>, pushed |-> <<>>, gallery |-> gallery]

Op1(a, joint, span) == [tt |-> Punct(a, joint, span), pushed |-> <<>>]

Op2PushFirst(a, b, joint, span) ==
    [tt |-> Punct(b, joint, span), pushed |-> <<Punct(a, TRUE, span)>>]

Op2(a, b, joint, span) ==
    [tt |-> Punct(a, TRUE, span), pushed |-> <<Punct(b, joint, span)>>]

Op3(a, b, c, joint, span) ==
    [tt |-> Punct(a, TRUE, span),
     pushed |-> <<Punct(c, joint, span), Punct(b, TRUE, span)>>]

Op(chars, joint, span) ==
    CASE Len(chars) = 1 -> Op1(chars[1], joint, span)
      [] Len(chars) = 2 -> Op2(chars[1], chars[2], joint, span)
      [] Len(chars) = 3 -> Op3(chars[1], chars[2], chars[3], joint, span)

\* symbol::Ident::without_first_quote
WithoutFirstQuote(name) == IF StartsWith(name, "'") THEN DropFirst(name) ELSE name

(***************************************************************************)
(* TokenTree::from_internal((tree, spacing), stack, rustc)                 *)
(***************************************************************************)
\* (a variant that pushes the '!' before the group)
FromInternalDocCommentBangFirst(kind, span, gallery) ==
    LET escaped == EscapeAll(kind.data)
        stream  == << TreeAndSpacing(Token(KIdent(sym_doc, FALSE), span), "Alone"),
                      TreeAndSpacing(Token(K("Eq"), span), "Alone"),
                      TreeAndSpacing(Token(KLiteral(Lit("Str", escaped, None)), span), "Alone") >>
        group   == Group("Bracket", stream, DelimSpanFromSingle(span), FALSE)
    IN  Conv(Punct("#", FALSE, span),
             IF kind.attr_style = "Inner"
             THEN <<Punct("!", FALSE, span), group>>
             ELSE <<group>>,
             gallery)

FromInternalDocComment(kind, span, gallery) ==
    LET escaped == EscapeAll(kind.data)
        stream  == << TreeAndSpacing(Token(KIdent(sym_doc, FALSE), span), "Alone"),
                      TreeAndSpacing(Token(K("Eq"), span), "Alone"),
                      TreeAndSpacing(Token(KLiteral(Lit("Str", escaped, None)), span), "Alone") >>
        group   == Group("Bracket", stream, DelimSpanFromSingle(span), FALSE)
    IN  Conv(Punct("#", FALSE, span),
             IF kind.attr_style = "Inner"
             THEN <<group, Punct("!", FALSE, span)>>
             ELSE <<group>>,
             gallery)

FromInternalLifetime(kind, span, gallery) ==
    LET name == WithoutFirstQuote(kind.name)
        id   == IdentNew(gallery, name, FALSE, span)
    IN  IF id.panic # "" THEN ConvPanic(id.panic, gallery)
        ELSE Conv(Punct("'", TRUE, span), <<id.ident>>, id.gallery)

FromInternalIdent(kind, span, gallery) ==
    IF kind.is_raw = FALSE /\ kind.name = kw_DollarCrate
    THEN Conv(IdentDollarCrate(span), <<>>, gallery)
    ELSE LET id == IdentNew(gallery, kind.name, kind.is_raw, span)
         IN  IF id.panic # "" THEN ConvPanic(id.panic, gallery)
             ELSE Conv(id.ident, <<>>, id.gallery)

FromInternalInterpolated(kind, span, gallery) ==
    IF kind.nt = "NtIdent"
    THEN LET id == IdentNew(gallery, kind.name, kind.is_raw, kind.span)
         IN  IF id.panic # "" THEN ConvPanic(id.panic, gallery)
             ELSE Conv(id.ident, <<>>, id.gallery)
    ELSE Conv(Group("None", kind.stream, DelimSpanFromSingle(span), kind.hack),
              <<>>, gallery)

from_internal(tas, gallery) ==
    LET tree  == tas.tree
        joint == (tas.spacing = "Joint")
    IN  IF tree.tree = "Delimited"
        THEN Conv(Group(DelimiterFromInternal(tree.delim), tree.tts, tree.span, FALSE),
                  <<>>, gallery)
        ELSE LET kind == tree.kind
                 span == tree.span
             IN  CASE OpChars(kind) # <<>> ->
                        LET o == Op(OpChars(kind), joint, span)
                        IN  Conv(o.tt, o.pushed, gallery)
                   [] kind.k = "Ident" -> FromInternalIdent(kind, span, gallery)
                   [] kind.k = "Lifetime" -> FromInternalLifetime(kind, span, gallery)
                   [] kind.k = "Literal" -> Conv(Literal(kind.lit, span), <<>>, gallery)
                   [] kind.k = "DocComment" -> FromInternalDocComment(kind, span, gallery)
                   [] kind.k = "Interpolated" -> FromInternalInterpolated(kind, span, gallery)
                   [] OTHER -> ConvPanic("unreachable", gallery)

(***************************************************************************)
(* TokenTree::to_internal: [panic, stream]                                 *)
(***************************************************************************)
PunctKind(ch) ==
    CASE ch = "=" -> K("Eq")
      [] ch = "<" -> K("Lt")
      [] ch = ">" -> K("Gt")
      [] ch = "!" -> K("Not")
      [] ch = "~" -> K("Tilde")
      [] ch = "+" -> BinOp("Plus")
      [] ch = "-" -> BinOp("Minus")
      [] ch = "*" -> BinOp("Star")
      [] ch = "/" -> BinOp("Slash")
      [] ch = "%" -> BinOp("Percent")
      [] ch = "^" -> BinOp("Caret")
      [] ch = "&" -> BinOp("And")
      [] ch = "|" -> BinOp("Or")
      [] ch = "@" -> K("At")
      [] ch = "." -> K("Dot")
      [] ch = "," -> K("Comma")
      [] ch = ";" -> K("Semi")
      [] ch = ":" -> K("Colon")
      [] ch = "#" -> K("Pound")
      [] ch = "$" -> K("Dollar")
      [] ch = "?" -> K("Question")
      [] ch = "'" -> K("SingleQuote")
      [] OTHER -> K("unreachable")

\* (a variant that splits a sign off every kind of literal)
ToInternalLiteralKeepsMinus(tt) ==
    IF tt.lit.kind \in {"Integer", "Float"} /\ StartsWith(tt.lit.symbol, "-")
    THEN << TreeAndSpacing(Token(BinOp("Minus"), tt.span), "Alone"),
            TreeAndSpacing(Token(KLiteral(tt.lit), tt.span), "Alone") >>
    ELSE Into(Token(KLiteral(tt.lit), tt.span))

ToInternalLiteralSplitsAll(tt) ==
    IF StartsWith(tt.lit.symbol, "-")
    THEN << TreeAndSpacing(Token(BinOp("Minus"), tt.span), "Alone"),
            TreeAndSpacing(Token(KLiteral(Lit(tt.lit.kind, DropFirst(tt.lit.symbol),
                                              tt.lit.suffix)), tt.span), "Alone") >>
    ELSE Into(Token(KLiteral(tt.lit), tt.span))

ToInternalLiteral(tt) ==
    IF tt.lit.kind = "Integer" /\ StartsWith(tt.lit.symbol, "-")
    THEN << TreeAndSpacing(Token(BinOp("Minus"), tt.span), "Alone"),
            TreeAndSpacing(Token(KLiteral(Lit("Integer", DropFirst(tt.lit.symbol),
                                              tt.lit.suffix)), tt.span), "Alone") >>
    ELSE IF tt.lit.kind = "Float" /\ StartsWith(tt.lit.symbol, "-")
    THEN << TreeAndSpacing(Token(BinOp("Minus"), tt.span), "Alone"),
            TreeAndSpacing(Token(KLiteral(Lit("Float", DropFirst(tt.lit.symbol),
                                              tt.lit.suffix)), tt.span), "Alone") >>
    ELSE Into(Token(KLiteral(tt.lit), tt.span))

ToInternalPunct(tt) ==
    LET kind == PunctKind(tt.ch) IN
    IF kind = K("unreachable")
    THEN [panic |-> "unreachable", stream |-> <<>>]
    ELSE [panic |-> "",
          stream |-> <<TreeAndSpacing(Token(kind, tt.span),
                                      IF tt.joint THEN "Joint" ELSE "Alone")>>]

to_internal(tt) ==
    CASE tt.tt = "Punct" -> ToInternalPunct(tt)
      [] tt.tt = "Group" ->
            [panic |-> "",
             stream |-> Into(Delimited(tt.span, DelimiterToInternal(tt.delimiter), tt.stream))]
      [] tt.tt = "Ident" ->
            [panic |-> "", stream |-> Into(Token(KIdent(tt.sym, tt.is_raw), tt.span))]
      [] tt.tt = "Literal" -> [panic |-> "", stream |-> ToInternalLiteral(tt)]

(***************************************************************************)
(* The internal tokens the model feeds to the conversions.  They are what  *)
(* the lexer and the expander produce: identifiers are NFC-normalised and  *)
(* valid, raw identifiers can be raw, numeric payloads carry no sign.      *)
(***************************************************************************)
Spacings == {"Joint", "Alone"}

BinOps == {"Plus", "Minus", "Star", "Slash", "Percent", "Caret", "And", "Or", "Shl", "Shr"}

SingleCharKinds ==
    {K(k) : k \in {"Eq", "Lt", "Gt", "Not", "Tilde", "At", "Dot", "Comma", "Semi",
                   "Colon", "Pound", "Dollar", "Question", "SingleQuote"}}
    \cup {BinOp(op) : op \in BinOps \ {"Shl", "Shr"}}

MultiCharKinds ==
    {K(k) : k \in {"Le", "EqEq", "Ne", "Ge", "AndAnd", "OrOr", "DotDot", "DotDotDot",
                   "DotDotEq", "ModSep", "RArrow", "LArrow", "FatArrow"}}
    \cup {BinOp("Shl"), BinOp("Shr")}
    \cup {BinOpEq(op) : op \in BinOps}

IdentKinds ==
    {KIdent(n, FALSE) : n \in {<<"a">>, <<"E'">>, <<"a", "1">>, kw_SelfLower,
                               kw_Underscore, kw_DollarCrate}}
    \cup {KIdent(n, TRUE) : n \in {<<"a">>, <<"E'">>}}

LiteralLits ==
    { Lit("Integer", <<"1">>, None), Lit("Integer", <<"1">>, Some(<<"u", "8">>)),
      Lit("Float", <<"1", ".", "5">>, None), Lit("Float", <<"1", ".", "5">>, Some(<<"f", "3", "2">>)),
      Lit("Str", <<"-", "a">>, None), Lit("Str", <<>>, None), Lit("Char", <<"-">>, None),
      Lit("Byte", <<"a">>, None), Lit("ByteStr", <<"-", "1">>, None),
      Lit("StrRaw", <<"-", "1">>, None), Lit("Err", <<"-">>, None) }

DocDatas == {<<>>, <<"a">>, <<" ", "a", "DQ">>, <<"BS", "'">>, <<"a", "NL">>}

DocKinds == {KDocComment(st, d) : st \in {"Inner", "Outer"}, d \in DocDatas}

LeafKinds ==
    SingleCharKinds \cup MultiCharKinds \cup IdentKinds \cup DocKinds
    \cup {KLiteral(l) : l \in LiteralLits} \cup {KLifetime(<<"'", "a">>)}

LeafTokens ==
    {TreeAndSpacing(Token(k, sp), s) : k \in LeafKinds, sp \in TokenSpans, s \in Spacings}

\* A few tokens of each shape, for the streams longer than one token and for
\* the streams inside groups and nonterminals.
SampleTokens ==
    { TreeAndSpacing(Token(BinOpEq("Shl"), Sp(0, 3, "root")), "Alone"),
      TreeAndSpacing(Token(K("RArrow"), Sp(0, 3, "root")), "Joint"),
      TreeAndSpacing(Token(K("Comma"), Sp(4, 6, "call")), "Alone"),
      TreeAndSpacing(Token(KLifetime(<<"'", "a">>), Sp(4, 6, "call")), "Joint"),
      TreeAndSpacing(Token(KIdent(<<"a">>, TRUE), Sp(0, 3, "root")), "Joint"),
      TreeAndSpacing(Token(KDocComment("Inner", <<"a", "DQ">>), Sp(4, 6, "call")), "Alone") }

Streams0 == SeqsUpTo({ TreeAndSpacing(Token(BinOpEq("Shl"), Sp(0, 3, "root")), "Alone"),
                       TreeAndSpacing(Token(KLifetime(<<"'", "a">>), Sp(4, 6, "call")), "Joint") }, 2)

\* Delimited groups and nonterminals over the streams `ss`.
NestedTokens(ss) ==
    {TreeAndSpacing(Token(KNt(st, h), Sp(4, 6, "call")), "Alone") : st \in ss, h \in BOOLEAN}
    \cup {TreeAndSpacing(Delimited(DelimSpanFromSingle(Sp(0, 3, "root")), d, st), "Alone") :
            st \in ss, d \in {"Parenthesis", "Invisible"}}

Streams1 == {<<t>> : t \in NestedTokens(Streams0)}

NestedSamples ==
    NestedTokens({<<>>, <<TreeAndSpacing(Token(K("RArrow"), Sp(0, 3, "root")), "Joint")>>})
    \cup NestedTokens({s \in Streams1 : s[1].tree.tree = "Token" /\ Len(s[1].tree.kind.stream) = 1})

InternalTokens ==
    LeafTokens \cup NestedTokens(Streams0) \cup NestedTokens(Streams1)
    \cup {TreeAndSpacing(Token(KNtIdent(<<"a">>, r, Sp(4, 6, "call")), Sp(0, 3, "root")), "Alone") :
            r \in BOOLEAN}

\* The streams into_trees is called with.
InputStreams ==
    {<<t>> : t \in InternalTokens}
    \cup {s \in SeqsUpTo(SampleTokens \cup NestedSamples, MaxStream) : Len(s) # 1}

(***************************************************************************)
(* Rustc::into_trees, one loop iteration per step.  An activation is       *)
(* [cursor, stack, tts]; the recursive call for a flattened group pushes   *)
(* an activation, and its return appends its tts to the caller's.          *)
(***************************************************************************)
Top == frames[Len(frames)]

Below == SubSeq(frames, 1, Len(frames) - 1)

Frame(cursor, stack, tts) == [cursor |-> cursor, stack |-> stack, tts |-> tts]

IntoTreesCall(stream) ==
    /\ frames = <<>>
    /\ frames' = <<Frame(stream, <<>>, <<>>)>>
    /\ call' = [op |-> "into_trees", arg |-> stream, from |-> <<>>, state |-> "pending",
                ret |-> <<>>]
    /\ UNCHANGED <<rustc, rebased_spans, symbol_gallery,
                   literal, resolver_calls,
                   client_group, diags, emitted, proc_macro_quoted_spans>>

\* (a variant that takes the next token while the stack still holds nodes)
NextTreeCursorFirst(f, gallery) ==
    IF f.cursor # <<>>
    THEN LET c == from_internal(Head(f.cursor), gallery)
         IN  [some |-> TRUE, panic |-> c.panic, tt |-> c.tt, cursor |-> Tail(f.cursor),
              stack |-> f.stack \o c.pushed, gallery |-> c.gallery]
    ELSE IF f.stack # <<>>
    THEN [some |-> TRUE, panic |-> "", tt |-> f.stack[Len(f.stack)], cursor |-> f.cursor,
          stack |-> SubSeq(f.stack, 1, Len(f.stack) - 1), gallery |-> gallery]
    ELSE [some |-> FALSE, panic |-> "", tt |-> <<>>, cursor |-> f.cursor,
          stack |-> f.stack, gallery |-> gallery]

\* stack.pop().or_else(|| cursor.next_with_spacing() ... from_internal):
\* [some, panic, tt, cursor, stack, gallery]
NextTree(f, gallery) ==
    IF f.stack # <<>>
    THEN [some |-> TRUE, panic |-> "", tt |-> f.stack[Len(f.stack)], cursor |-> f.cursor,
          stack |-> SubSeq(f.stack, 1, Len(f.stack) - 1), gallery |-> gallery]
    ELSE IF f.cursor # <<>>
    THEN LET c == from_internal(Head(f.cursor), gallery)
         IN  [some |-> TRUE, panic |-> c.panic, tt |-> c.tt, cursor |-> Tail(f.cursor),
              stack |-> f.stack \o c.pushed, gallery |-> c.gallery]
    ELSE [some |-> FALSE, panic |-> "", tt |-> <<>>, cursor |-> f.cursor,
          stack |-> f.stack, gallery |-> gallery]

\* (a variant that emits a flattened group as a node)
IntoTreesLoopKeepsFlattened ==
    /\ frames # <<>>
    /\ LET n == NextTree(Top, symbol_gallery) IN
       /\ n.some
       /\ symbol_gallery' = n.gallery
       /\ IF n.panic # ""
          THEN /\ frames' = <<>>
               /\ call' = [call EXCEPT !.state = "panic", !.ret = n.panic]
          ELSE /\ call' = call
               /\ frames' = Below \o <<Frame(n.cursor, n.stack, Append(Top.tts, n.tt))>>
    /\ UNCHANGED <<rustc, rebased_spans, literal, resolver_calls,
                   client_group, diags, emitted, proc_macro_quoted_spans>>

\* The loop body for Some(tree).
IntoTreesLoop ==
    /\ frames # <<>>
    /\ LET n == NextTree(Top, symbol_gallery) IN
       /\ n.some
       /\ symbol_gallery' = n.gallery
       /\ IF n.panic # ""
          THEN /\ frames' = <<>>
               /\ call' = [call EXCEPT !.state = "panic", !.ret = n.panic]
          ELSE /\ call' = call
               /\ IF n.tt.tt = "Group" /\ n.tt.flatten
                  THEN frames' = Below \o <<Frame(n.cursor, n.stack, Top.tts),
                                            Frame(n.tt.stream, <<>>, <<>>)>>
                  ELSE frames' = Below \o <<Frame(n.cursor, n.stack, Append(Top.tts, n.tt))>>
    /\ UNCHANGED <<rustc, rebased_spans, literal, resolver_calls,
                   client_group, diags, emitted, proc_macro_quoted_spans>>

\* The loop body for None: return tts (to the caller's tts.append, if any).
IntoTreesReturn ==
    /\ frames # <<>>
    /\ ~NextTree(Top, symbol_gallery).some
    /\ IF Len(frames) = 1
       THEN /\ frames' = <<>>
            /\ call' = [call EXCEPT !.state = "ok", !.ret = Top.tts]
       ELSE /\ frames' = SubSeq(frames, 1, Len(frames) - 2)
                         \o <<[frames[Len(frames) - 1] EXCEPT !.tts = @ \o Top.tts]>>
            /\ call' = call
    /\ UNCHANGED <<rustc, rebased_spans, symbol_gallery,
                   literal, resolver_calls,
                   client_group, diags, emitted, proc_macro_quoted_spans>>

(***************************************************************************)
(* Rustc::new.  An expansion's data gives the definition and call sites;   *)
(* with_def_site_ctxt and its siblings stamp a hygiene context on them.    *)
(***************************************************************************)
WithCtxt(span, ctxt) == [span EXCEPT !.ctxt = ctxt]

ExpnData(def, call_, k) == [def_site |-> def, call_site |-> call_, krate |-> k]

Expansions == { ExpnData(Sp(10, 12, "root"), Sp(20, 24, "root"), 1),
                ExpnData(Sp(13, 15, "root"), Sp(25, 27, "root"), 2) }

SpanIds == {0, 1}

RustcFields(expn_data) ==
    [def_site |-> WithCtxt(expn_data.def_site, "def"),
     call_site |-> WithCtxt(expn_data.call_site, "call"),
     mixed_site |-> WithCtxt(expn_data.call_site, "mixed"),
     krate |-> expn_data.krate,
     rebased_spans |-> [id \in SpanIds |-> NoSpan]]

InitRustc ==
    LET r == RustcFields(ExpnData(Sp(10, 12, "root"), Sp(20, 24, "root"), 1)) IN
    /\ ecx = ExpnData(Sp(10, 12, "root"), Sp(20, 24, "root"), 1)
    /\ def_site = r.def_site
    /\ call_site = r.call_site
    /\ mixed_site = r.mixed_site
    /\ krate = r.krate
    /\ rebased_spans = r.rebased_spans
    /\ resolver_calls = [id \in SpanIds |-> <<>>]

InitIdle ==
    /\ InitRustc
    /\ symbol_gallery = {}
    /\ frames = <<>>
    /\ call = NoCall
    /\ literal = NoLiteral
    /\ client_group = NoGroup
    /\ diags = <<>>
    /\ emitted = <<>>
    /\ proc_macro_quoted_spans = <<>>

(***************************************************************************)
(* SpecTrees: one into_trees call on any of the input streams.             *)
(***************************************************************************)
NextTrees ==
    \/ call = NoCall /\ \E stream \in InputStreams : IntoTreesCall(stream)
    \/ IntoTreesLoop
    \/ IntoTreesReturn

SpecTrees == InitIdle /\ [][NextTrees]_vars

Returned(op) == call.op = op /\ call.state = "ok"

(***************************************************************************)
(* The source text of the multi-character operators (the token printer's   *)
(* table, pprust::token_kind_to_string).                                   *)
(***************************************************************************)
BinOpText(op) ==
    CASE op = "Plus" -> <<"+">> [] op = "Minus" -> <<"-">> [] op = "Star" -> <<"*">>
      [] op = "Slash" -> <<"/">> [] op = "Percent" -> <<"%">> [] op = "Caret" -> <<"^">>
      [] op = "And" -> <<"&">> [] op = "Or" -> <<"|">>
      [] op = "Shl" -> <<"<", "<">> [] op = "Shr" -> <<">", ">">>

OpText(kind) ==
    CASE kind.k = "BinOp" -> BinOpText(kind.op)
      [] kind.k = "BinOpEq" -> BinOpText(kind.op) \o <<"=">>
      [] kind.k = "Le" -> <<"<", "=">> [] kind.k = "EqEq" -> <<"=", "=">>
      [] kind.k = "Ne" -> <<"!", "=">> [] kind.k = "Ge" -> <<">", "=">>
      [] kind.k = "AndAnd" -> <<"&", "&">> [] kind.k = "OrOr" -> <<"|", "|">>
      [] kind.k = "DotDot" -> <<".", ".">> [] kind.k = "DotDotDot" -> <<".", ".", ".">>
      [] kind.k = "DotDotEq" -> <<".", ".", "=">> [] kind.k = "ModSep" -> <<":", ":">>
      [] kind.k = "RArrow" -> <<"-", ">">> [] kind.k = "LArrow" -> <<"<", "-">>
      [] kind.k = "FatArrow" -> <<"=", ">">>

IsToken(tas, kinds) == tas.tree.tree = "Token" /\ tas.tree.kind \in kinds

\* C1: into_trees turns a multi-character operator token with spacing s into
\* exactly N single-character Puncts, in order, the first N-1 joint and the
\* last joint iff s = Joint, all with the token's span; their characters
\* spell the operator's source text.
C1_OperatorDecomposition ==
    (Returned("into_trees") /\ call.arg # <<>> /\ IsToken(call.arg[1], MultiCharKinds)) =>
        LET tok  == call.arg[1]
            text == OpText(tok.tree.kind)
            N    == Len(text)
        IN  /\ N >= 2
            /\ Len(call.ret) >= N
            /\ \A i \in 1..N :
                 call.ret[i] = Punct(text[i], i < N \/ tok.spacing = "Joint", tok.tree.span)
            /\ Len(call.arg) = 1 => Len(call.ret) = N

C1_Witness ==
    /\ Returned("into_trees")
    /\ call.arg = <<TreeAndSpacing(Token(BinOpEq("Shr"), Sp(0, 3, "root")), "Alone")>>
    /\ Len(call.ret) = 3
    /\ call.ret[3] = Punct("=", FALSE, Sp(0, 3, "root"))

\* C10: into_trees turns a doc-comment token into '#' (not joint), then for an
\* inner comment only '!' (not joint), then one Bracket group (flatten = false)
\* holding exactly `doc`, `=` and a string literal whose payload is the comment
\* text, each character debug-escaped; every node carries the comment's span.
C10_DocCommentDecomposition ==
    (Returned("into_trees") /\ call.arg # <<>> /\ IsToken(call.arg[1], DocKinds)) =>
        LET kind  == call.arg[1].tree.kind
            span  == call.arg[1].tree.span
            inner == kind.attr_style = "Inner"
            g     == IF inner THEN 3 ELSE 2
        IN  /\ Len(call.ret) >= g
            /\ Len(call.arg) = 1 => Len(call.ret) = g
            /\ call.ret[1] = Punct("#", FALSE, span)
            /\ inner => call.ret[2] = Punct("!", FALSE, span)
            /\ call.ret[g].tt = "Group"
            /\ call.ret[g].delimiter = "Bracket"
            /\ call.ret[g].flatten = FALSE
            /\ call.ret[g].span = [open |-> span, close |-> span]
            /\ call.ret[g].stream =
                 << TreeAndSpacing(Token(KIdent(<<"d", "o", "c">>, FALSE), span), "Alone"),
                    TreeAndSpacing(Token(K("Eq"), span), "Alone"),
                    TreeAndSpacing(Token(KLiteral(Lit("Str",
                        Concat([i \in 1..Len(kind.data) |-> EscapeDebug(kind.data[i])]),
                        None)), span), "Alone") >>

C10_Witness ==
    /\ Returned("into_trees")
    /\ call.arg = <<TreeAndSpacing(Token(KDocComment("Inner", <<" ", "a", "DQ">>),
                                         Sp(4, 6, "call")), "Joint")>>
    /\ Len(call.ret) = 3
    /\ call.ret[2].ch = "!"
    /\ call.ret[3].stream[3].tree.kind.lit.symbol = <<" ", "a", "BS", "DQ">>

(***************************************************************************)
(* What into_trees is to return for a stream: the nodes of each token in   *)
(* the order of the tokens, a flattened nonterminal standing for the nodes *)
(* of its stream, every other group for one Group node.                    *)
(***************************************************************************)
Reverse(seq) == [i \in 1..Len(seq) |-> seq[Len(seq) + 1 - i]]

\* The nodes one token gives: the node from_internal answers, then the nodes
\* it pushed, last pushed first.
Decomposition(tas) ==
    LET c == from_internal(tas, {}) IN <<c.tt>> \o Reverse(c.pushed)

IsNonterminal(tas) ==
    /\ tas.tree.tree = "Token"
    /\ tas.tree.kind.k = "Interpolated"
    /\ tas.tree.kind.nt = "Nt"

RECURSIVE Inlined(_)
Inlined(stream) ==
    IF stream = <<>> THEN <<>>
    ELSE LET tas == Head(stream)
             nodes == IF tas.tree.tree = "Delimited"
                      THEN <<Group(DelimiterFromInternal(tas.tree.delim), tas.tree.tts,
                                   tas.tree.span, FALSE)>>
                      ELSE IF IsNonterminal(tas)
                      THEN IF tas.tree.kind.hack
                           THEN Inlined(tas.tree.kind.stream)
                           ELSE <<Group("None", tas.tree.kind.stream,
                                        [open |-> tas.tree.span, close |-> tas.tree.span],
                                        FALSE)>>
                      ELSE Decomposition(tas)
         IN  nodes \o Inlined(Tail(stream))

\* C14: what into_trees returns holds no Group with the flatten flag at its
\* top level: each flattened nonterminal stands replaced, where it was, by the
\* conversion of its stream (flattened nonterminals inside it likewise), and
\* every other group is one Group node whose stream is the token's, untouched.
C14_FlattenedGroupsInlined ==
    Returned("into_trees") =>
        /\ \A i \in 1..Len(call.ret) : call.ret[i].tt = "Group" => ~call.ret[i].flatten
        /\ call.ret = Inlined(call.arg)

C14_Witness ==
    /\ Returned("into_trees")
    /\ Len(call.arg) = 2
    /\ IsNonterminal(call.arg[1])
    /\ call.arg[1].tree.kind.hack
    /\ Len(call.arg[1].tree.kind.stream) = 1
    /\ IsNonterminal(call.arg[1].tree.kind.stream[1])
    /\ call.arg[1].tree.kind.stream[1].tree.kind.hack
    /\ call.arg[1].tree.kind.stream[1].tree.kind.stream # <<>>
    /\ IsNonterminal(call.arg[2])
    /\ ~call.arg[2].tree.kind.hack
    /\ Len(call.ret) >= 3
    /\ call.ret[Len(call.ret)].tt = "Group"

\* What is still to come of the activations from the k-th on: the nodes made,
\* those of the activations above, the stack (top first), the rest of the cursor.
RECURSIVE Outstanding(_)
Outstanding(k) ==
    frames[k].tts
    \o (IF k < Len(frames) THEN Outstanding(k + 1) ELSE <<>>)
    \o Reverse(frames[k].stack)
    \o Inlined(frames[k].cursor)

\* C17: throughout into_trees the nodes made so far, then the pending stack,
\* then the conversion of the rest of the cursor are the in-order
\* concatenation of the tokens' decompositions, so the nodes of one token
\* come out together, first to last, before any node of the next; the stack
\* is empty whenever a token is taken from the cursor and in every activation
\* that waits for a flattened group; an activation returns only with its
\* stack and cursor both exhausted.
C17_PendingStackDiscipline ==
    /\ [](/\ frames # <<>> => Outstanding(1) = Inlined(call.arg)
          /\ Returned("into_trees") => call.ret = Inlined(call.arg)
          /\ \A k \in 1..(Len(frames) - 1) : frames[k].stack = <<>>)
    /\ [][frames # <<>> =>
            LET n == Len(frames) IN
            /\ (Len(frames') >= n /\ frames'[n].cursor # frames[n].cursor) =>
                   frames[n].stack = <<>>
            /\ Len(frames') < n => frames[n].stack = <<>> /\ frames[n].cursor = <<>>]_vars

C17_Witness ==
    /\ Returned("into_trees")
    /\ call.arg = <<TreeAndSpacing(Token(KLifetime(<<"'", "a">>), Sp(4, 6, "call")), "Joint"),
                    TreeAndSpacing(Token(BinOpEq("Shl"), Sp(0, 3, "root")), "Alone")>>
    /\ call.ret = << Punct("'", TRUE, Sp(4, 6, "call")),
                     [tt |-> "Ident", sym |-> <<"a">>, is_raw |-> FALSE, span |-> Sp(4, 6, "call")],
                     Punct("<", TRUE, Sp(0, 3, "root")),
                     Punct("<", TRUE, Sp(0, 3, "root")),
                     Punct("=", FALSE, Sp(0, 3, "root")) >>

(***************************************************************************)
(* server::TokenStream::from_token_tree                                    *)
(***************************************************************************)
FromTokenTreeCall(tree, from) ==
    LET r == to_internal(tree) IN
    /\ call' = [op |-> "from_token_tree", arg |-> tree, from |-> from,
                state |-> IF r.panic # "" THEN "panic" ELSE "ok", ret |-> r.stream]
    /\ UNCHANGED <<rustc, rebased_spans, symbol_gallery,
                   frames, literal, resolver_calls,
                   client_group, diags, emitted, proc_macro_quoted_spans>>

\* The client hands a tree of its own making.
FromTokenTree(tree) ==
    /\ frames = <<>>
    /\ FromTokenTreeCall(tree, <<>>)

\* The client hands back the one tree into_trees made of a one-token stream.
FromTokenTreeOfConverted ==
    /\ Returned("into_trees")
    /\ Len(call.arg) = 1
    /\ Len(call.ret) = 1
    /\ FromTokenTreeCall(call.ret[1], call.arg)

LitKinds == {"Bool", "Byte", "Char", "Integer", "Float", "Str", "StrRaw", "ByteStr",
             "ByteStrRaw", "Err"}

\* Literal nodes as the client can hold them (the constructors take any text).
ClientLiterals ==
    {Literal(Lit(k, sym, suf), sp) :
        k \in LitKinds,
        sym \in {<<>>, <<"-">>, <<"1">>, <<"-", "1">>, <<"-", "1", ".", "5">>, <<"1", "-">>},
        suf \in {None, Some(<<"u", "8">>)},
        sp \in TokenSpans}

ClientPuncts ==
    {Punct(ch, j, sp) : ch \in {"+", "-", "'", "#", "a"}, j \in BOOLEAN, sp \in TokenSpans}

ClientTrees ==
    ClientLiterals \cup ClientPuncts
    \cup {[tt |-> "Ident", sym |-> <<"a">>, is_raw |-> r, span |-> Sp(0, 3, "root")] : r \in BOOLEAN}
    \cup {Group(d, st, DelimSpanFromSingle(Sp(4, 6, "call")), FALSE) :
            d \in {"Parenthesis", "Brace", "Bracket", "None"}, st \in Streams0}

(***************************************************************************)
(* SpecConv: one token through into_trees and back through                 *)
(* from_token_tree, or one client tree through from_token_tree.            *)
(***************************************************************************)
NextConv ==
    \/ call = NoCall /\ \E t \in InternalTokens : IntoTreesCall(<<t>>)
    \/ IntoTreesLoop
    \/ IntoTreesReturn
    \/ FromTokenTreeOfConverted
    \/ call = NoCall /\ \E tree \in ClientTrees : FromTokenTree(tree)

SpecConv == InitIdle /\ [][NextConv]_vars

LiteralKinds == {KLiteral(l) : l \in LiteralLits}

RoundTripped(kinds) ==
    /\ call.op = "from_token_tree"
    /\ call.from # <<>>
    /\ IsToken(call.from[1], kinds)

\* C2 as stated: every single-node token comes back as one token of the same
\* kind, text, span and spacing.
C2_RoundTripSameSpacing ==
    RoundTripped(SingleCharKinds \cup IdentKinds \cup LiteralKinds) =>
        /\ call.state = "ok"
        /\ call.ret = call.from

\* C2 (amended): every single-node token comes back, without reaching the
\* unreachable branch, as one token of the same kind, text and span; a
\* punctuation token keeps its spacing, an identifier or literal token comes
\* back Alone whatever its spacing was.
C2_RoundTrip ==
    RoundTripped(SingleCharKinds \cup IdentKinds \cup LiteralKinds) =>
        /\ call.state = "ok"
        /\ Len(call.ret) = 1
        /\ call.ret[1].tree = call.from[1].tree
        /\ call.ret[1].spacing =
             IF IsToken(call.from[1], SingleCharKinds) THEN call.from[1].spacing ELSE "Alone"

C2_Witness ==
    /\ RoundTripped(IdentKinds)
    /\ call.from[1].spacing = "Joint"
    /\ call.from[1].tree.kind.is_raw
    /\ call.state = "ok"
    /\ call.ret[1].spacing = "Alone"

\* C5: to_internal of an Integer or Float Literal node whose payload begins
\* with '-' gives a minus token then a literal token of the same kind and
\* suffix whose payload is the rest of the text, both with the literal's span;
\* any other Literal node gives the one literal token, payload unchanged.
C5_NegativeLiteralSplit ==
    (call.op = "from_token_tree" /\ call.arg.tt = "Literal") =>
        LET l    == call.arg.lit
            span == call.arg.span
        IN  /\ call.state = "ok"
            /\ IF l.kind \in {"Integer", "Float"} /\ Len(l.symbol) >= 1 /\ l.symbol[1] = "-"
               THEN /\ Len(call.ret) = 2
                    /\ call.ret[1].tree = Token(BinOp("Minus"), span)
                    /\ call.ret[2].tree.tree = "Token"
                    /\ call.ret[2].tree.span = span
                    /\ call.ret[2].tree.kind.k = "Literal"
                    /\ call.ret[2].tree.kind.lit.kind = l.kind
                    /\ call.ret[2].tree.kind.lit.suffix = l.suffix
                    /\ Len(call.ret[2].tree.kind.lit.symbol) = Len(l.symbol) - 1
                    /\ \A i \in 1..(Len(l.symbol) - 1) :
                         call.ret[2].tree.kind.lit.symbol[i] = l.symbol[i + 1]
               ELSE /\ Len(call.ret) = 1
                    /\ call.ret[1].tree = Token(KLiteral(l), span)

C5_Witness ==
    /\ call.op = "from_token_tree"
    /\ call.arg = Literal(Lit("Float", <<"-", "1", ".", "5">>, Some(<<"u", "8">>)), Sp(4, 6, "call"))
    /\ Len(call.ret) = 2
    /\ call.ret[2].tree.kind.lit.symbol = <<"1", ".", "5">>

(***************************************************************************)
(* The lexer, as far as Literal::from_str needs it.  A source text is a    *)
(* sequence of lexical pieces: tokens, blanks and comments.  Lexing gives  *)
(* the tokens with their byte positions; blanks and comments give none.    *)
(***************************************************************************)
Piece(text, kind) == [text |-> text, kind |-> kind]

Blank == Piece(<<" ">>, K("Whitespace"))

Comment == Piece(<<"/", "*", "c", "*", "/">>, K("Comment"))

MinusPiece == Piece(<<"-">>, BinOp("Minus"))

LiteralPieces ==
    { Piece(<<"1">>, KLiteral(Lit("Integer", <<"1">>, None))),
      Piece(<<"1", "2", "u", "8">>, KLiteral(Lit("Integer", <<"1", "2">>, Some(<<"u", "8">>)))),
      Piece(<<"1", ".", "5">>, KLiteral(Lit("Float", <<"1", ".", "5">>, None))),
      Piece(<<"1", ".", "5", "f", "3", "2">>,
            KLiteral(Lit("Float", <<"1", ".", "5">>, Some(<<"f", "3", "2">>)))),
      Piece(<<"'", "a", "'">>, KLiteral(Lit("Char", <<"a">>, None))),
      Piece(<<"b", "'", "a", "'">>, KLiteral(Lit("Byte", <<"a">>, None))),
      Piece(<<"DQ", "s", "DQ">>, KLiteral(Lit("Str", <<"s">>, None))),
      Piece(<<"b", "DQ", "s", "DQ">>, KLiteral(Lit("ByteStr", <<"s">>, None))),
      Piece(<<"r", "DQ", "s", "DQ">>, KLiteral(Lit("StrRaw", <<"s">>, None))),
      Piece(<<"'", "'">>, KLiteral(Lit("Err", <<>>, None))) }

OtherPieces ==
    { Piece(<<"a">>, KIdent(<<"a">>, FALSE)), Piece(<<"+">>, BinOp("Plus")) }

Pieces == {Blank, Comment, MinusPiece} \cup LiteralPieces \cup OtherPieces

IsTrivia(p) == p.kind.k \in {"Whitespace", "Comment"}

IsWordy(p) == p.kind.k \in {"Literal", "Ident"}

\* The piece sequences the lexer splits as written: a literal or identifier
\* directly followed by another would lex as one token (a longer number, a
\* suffix, a prefixed literal).
LexesAsWritten(ps) ==
    \A i \in 1..(Len(ps) - 1) : ~(IsWordy(ps[i]) /\ IsWordy(ps[i + 1]))

Sources == {ps \in SeqsUpTo(Pieces, MaxPieces) : LexesAsWritten(ps)}

SourceText(ps) == Concat([i \in 1..Len(ps) |-> ps[i].text])

\* Where the parser's source file may start in the source map.
FileStarts == {0, 9}

RECURSIVE LexFrom(_, _)
LexFrom(ps, pos) ==
    IF ps = <<>> THEN <<[kind |-> K("Eof"), lo |-> pos, hi |-> pos]>>
    ELSE LET p == Head(ps)
             rest == LexFrom(Tail(ps), pos + Len(p.text))
         IN  IF IsTrivia(p) THEN rest
             ELSE <<[kind |-> p.kind, lo |-> pos, hi |-> pos + Len(p.text)]>> \o rest

\* new_parser_from_source_str: the tokens of the text, Eof last
Lex(ps, start) == LexFrom(ps, start)

(***************************************************************************)
(* server::Literal::from_str                                               *)
(***************************************************************************)
Err == [ok |-> FALSE, panic |-> "", literal |-> NoLiteral]

Ok(lit) == [ok |-> TRUE, panic |-> "", literal |-> lit]

\* (a variant that accepts a gap after the minus)
MinusAdjacentAlways(first_span, lit_span) == TRUE

\* first_span.hi.0 != lit_span.lo.0 is the failure
MinusAdjacent(first_span, lit_span) == first_span.hi = lit_span.lo

\* (a variant that forgets the sign)
SynthesizedSymbolUnsigned(s, lit) == lit.symbol

\* &s[..1 + lit.symbol.as_str().len()]
SynthesizedSymbol(s, lit) == Prefix(s, 1 + Len(lit.symbol))

NegatableKind(kind) ==
    CASE kind \in {"Bool", "Byte", "Char", "Str", "StrRaw", "ByteStr", "ByteStrRaw", "Err"} -> FALSE
      [] kind \in {"Integer", "Float"} -> TRUE

LiteralFromStr(s, tokens, site) ==
    LET first_span    == tokens[1]
        minus_present == tokens[1].kind = BinOp("Minus")
        token         == IF minus_present THEN tokens[2] ELSE tokens[1]
        lit_span      == token
    IN  IF token.kind.k # "Literal" THEN Err
        ELSE IF lit_span.hi - first_span.lo # Len(s) THEN Err
        ELSE IF minus_present
        THEN IF ~MinusAdjacent(first_span, lit_span) THEN Err
             ELSE IF ~NegatableKind(token.kind.lit.kind) THEN Err
             ELSE IF 1 + Len(token.kind.lit.symbol) > Len(s)
             THEN [ok |-> FALSE, panic |-> "byte index out of range", literal |-> NoLiteral]
             ELSE Ok([lit |-> Lit(token.kind.lit.kind, SynthesizedSymbol(s, token.kind.lit),
                                  token.kind.lit.suffix),
                      span |-> site])
        ELSE Ok([lit |-> token.kind.lit, span |-> site])

LiteralFromStrCall(ps, start) ==
    /\ frames = <<>>
    /\ LET r == LiteralFromStr(SourceText(ps), Lex(ps, start), call_site) IN
       /\ call' = [op |-> "Literal::from_str", arg |-> SourceText(ps), from |-> ps,
                   state |-> IF r.panic # "" THEN "panic" ELSE "ok", ret |-> r]
       /\ literal' = IF r.ok THEN r.literal ELSE literal
    /\ UNCHANGED <<rustc, rebased_spans, symbol_gallery,
                   frames, resolver_calls,
                   client_group, diags, emitted, proc_macro_quoted_spans>>

(***************************************************************************)
(* SpecLit: one Literal::from_str call on any of the source texts.         *)
(***************************************************************************)
NextLit == call = NoCall /\ \E ps \in Sources, start \in FileStarts : LiteralFromStrCall(ps, start)

SpecLit == InitIdle /\ [][NextLit]_vars

Numeric(p) == p.kind.k = "Literal" /\ p.kind.lit.kind \in {"Integer", "Float"}

\* the input is exactly one literal, or a minus directly followed by a
\* numeric literal
WellFormedLiteralText(ps) ==
    \/ Len(ps) = 1 /\ ps[1] \in LiteralPieces
    \/ Len(ps) = 2 /\ ps[1] = MinusPiece /\ ps[2] \in LiteralPieces /\ Numeric(ps[2])

\* C3: Literal::from_str returns Err, without panicking, whenever the optional
\* minus and the literal do not cover the whole input, and, with a minus,
\* whenever a gap follows it or the literal is not an integer or a float; so
\* "1 ", "/*c*/1", "1 1", "- 1", "-'a'", "-"s"" fail and "1", "-1", "-1.5"
\* succeed.
C3_FromStrStrict ==
    call.op = "Literal::from_str" =>
        /\ call.state = "ok"
        /\ ~WellFormedLiteralText(call.from) => ~call.ret.ok
        /\ call.arg \in {<<"1">>, <<"-", "1">>, <<"-", "1", ".", "5">>} => call.ret.ok
        /\ call.arg \in {<<"1", " ">>, <<"/", "*", "c", "*", "/", "1">>, <<"1", " ", "1">>,
                         <<"-", " ", "1">>, <<"-", "'", "a", "'">>, <<"-", "DQ", "s", "DQ">>}
             => ~call.ret.ok

C3_Witness ==
    /\ call.op = "Literal::from_str"
    /\ call.arg = <<"-", " ", "1">>
    /\ ~call.ret.ok
    /\ call.state = "ok"

\* C4: when Literal::from_str succeeds on an input that begins with a minus,
\* the literal has the lexed literal's kind (integer or float) and suffix and
\* the payload "-" followed by the lexed payload; without a minus it is the
\* lexed literal unchanged; either way its span is the call-site span.
C4_FromStrFoldsMinus ==
    (call.op = "Literal::from_str" /\ call.ret.ok) =>
        LET lexed == call.from[Len(call.from)].kind.lit
            got   == call.ret.literal
        IN  /\ got.span = call_site
            /\ literal = got
            /\ IF call.arg[1] = "-"
               THEN /\ got.lit.kind = lexed.kind
                    /\ got.lit.kind \in {"Integer", "Float"}
                    /\ got.lit.suffix = lexed.suffix
                    /\ got.lit.symbol = <<"-">> \o lexed.symbol
               ELSE got.lit = lexed

C4_Witness ==
    /\ call.op = "Literal::from_str"
    /\ call.arg = <<"-", "1", "2", "u", "8">>
    /\ call.ret.ok
    /\ call.ret.literal.lit = Lit("Integer", <<"-", "1", "2">>, Some(<<"u", "8">>))

(***************************************************************************)
(* Integer widths.                                                         *)
(***************************************************************************)
U32_MAX == 2 ^ PosBits - 1

USIZE_MAX == 2 ^ (2 * PosBits) - 1

\* usize::checked_add
CheckedAdd(a, b) == IF a + b > USIZE_MAX THEN None ELSE Some(a + b)

\* `n as u32`, BytePos::from_usize: the low bits; `lossy` when bits were cut
CastU32(n) == [v |-> n % (U32_MAX + 1), lossy |-> n > U32_MAX]

\* u32 + u32: wraps (or panics, in a debug build) beyond u32::MAX
AddU32(a, b) == [v |-> (a + b) % (U32_MAX + 1), lossy |-> a + b > U32_MAX]

\* Span::with_lo, Span::with_hi: Span::new orders the two ends
SpanNew(lo, hi, ctxt) == IF lo <= hi THEN Sp(lo, hi, ctxt) ELSE Sp(hi, lo, ctxt)

WithLo(span, lo) == SpanNew(lo, span.hi, span.ctxt)

WithHi(span, hi) == SpanNew(span.lo, hi, span.ctxt)

(***************************************************************************)
(* token::Lit's Display: the text of a literal.                            *)
(***************************************************************************)
SuffixText(suffix) == IF suffix = None THEN <<>> ELSE suffix[2]

LitToString(lit) ==
    (CASE lit.kind = "Byte" -> <<"b", "'">> \o lit.symbol \o <<"'">>
       [] lit.kind = "Char" -> <<"'">> \o lit.symbol \o <<"'">>
       [] lit.kind = "Str" -> <<"DQ">> \o lit.symbol \o <<"DQ">>
       [] lit.kind = "StrRaw" -> <<"r", "DQ">> \o lit.symbol \o <<"DQ">>
       [] lit.kind = "ByteStr" -> <<"b", "DQ">> \o lit.symbol \o <<"DQ">>
       [] lit.kind = "ByteStrRaw" -> <<"b", "r", "DQ">> \o lit.symbol \o <<"DQ">>
       [] OTHER -> lit.symbol)
    \o SuffixText(lit.suffix)

(***************************************************************************)
(* Rustc::lit and the constructors built on it.                            *)
(***************************************************************************)
RustcLit(kind, symbol, suffix) == [lit |-> Lit(kind, symbol, suffix), span |-> call_site]

ConstructorCall(op, arg, lit) ==
    /\ frames = <<>>
    /\ call' = [op |-> op, arg |-> arg, from |-> <<>>, state |-> "ok", ret |-> lit]
    /\ literal' = lit
    /\ UNCHANGED <<rustc, rebased_spans, symbol_gallery,
                   frames, resolver_calls,
                   client_group, diags, emitted, proc_macro_quoted_spans>>

\* server::Literal::integer
LiteralInteger(n) == ConstructorCall("Literal::integer", n, RustcLit("Integer", n, None))

\* server::Literal::set_span
LiteralSetSpan(span) ==
    /\ frames = <<>>
    /\ literal # NoLiteral
    /\ literal' = [literal EXCEPT !.span = span]
    /\ call' = [op |-> "Literal::set_span", arg |-> span, from |-> <<>>, state |-> "ok",
                ret |-> <<>>]
    /\ UNCHANGED <<rustc, rebased_spans, symbol_gallery,
                   frames, resolver_calls,
                   client_group, diags, emitted, proc_macro_quoted_spans>>

(***************************************************************************)
(* server::Literal::subspan: [some, span, fault]                           *)
(***************************************************************************)
Included(v) == [b |-> "Included", v |-> v]

Excluded(v) == [b |-> "Excluded", v |-> v]

Unbounded == [b |-> "Unbounded", v |-> 0]

SubspanStart(start) ==
    CASE start.b = "Included" -> Some(start.v)
      [] start.b = "Excluded" -> CheckedAdd(start.v, 1)
      [] start.b = "Unbounded" -> Some(0)

SubspanEnd(end, length) ==
    CASE end.b = "Included" -> CheckedAdd(end.v, 1)
      [] end.b = "Excluded" -> Some(end.v)
      [] end.b = "Unbounded" -> Some(length)

\* (a variant without the two width checks)
BoundsCheckNoWidth(start, end, lo, length) ==
    LET s32 == CastU32(start)
        e32 == CastU32(end)
    IN  [reject |-> \/ (U32_MAX - s32.v) < lo
                    \/ (U32_MAX - e32.v) < lo
                    \/ start >= end
                    \/ end > length,
         fault |-> s32.lossy \/ e32.lossy]

\* (a variant without the check against the span's length)
BoundsCheckNoLength(start, end, lo, length) ==
    IF start > U32_MAX \/ end > U32_MAX THEN [reject |-> TRUE, fault |-> FALSE]
    ELSE LET s32 == CastU32(start)
             e32 == CastU32(end)
         IN  [reject |-> \/ (U32_MAX - s32.v) < lo
                         \/ (U32_MAX - e32.v) < lo
                         \/ start >= end,
              fault |-> s32.lossy \/ e32.lossy]

\* "Bounds check the values, preventing addition overflow and OOB spans."
\* The casts are reached only when the width checks before them passed.
BoundsCheck(start, end, lo, length) ==
    IF start > U32_MAX \/ end > U32_MAX THEN [reject |-> TRUE, fault |-> FALSE]
    ELSE LET s32 == CastU32(start)
             e32 == CastU32(end)
         IN  [reject |-> \/ (U32_MAX - s32.v) < lo
                         \/ (U32_MAX - e32.v) < lo
                         \/ start >= end
                         \/ end > length,
              fault |-> s32.lossy \/ e32.lossy]

NoSubspan == [some |-> FALSE, span |-> NoSpan, fault |-> FALSE]

LiteralSubspanOf(l, start_bound, end_bound) ==
    LET span   == l.span
        length == span.hi - span.lo
        start  == SubspanStart(start_bound)
        end    == SubspanEnd(end_bound, length)
    IN  IF length < 0 THEN [NoSubspan EXCEPT !.fault = TRUE]
        ELSE IF start = None \/ end = None THEN NoSubspan
        ELSE LET chk == BoundsCheck(start[2], end[2], span.lo, length) IN
             IF chk.reject THEN [NoSubspan EXCEPT !.fault = chk.fault]
             ELSE LET s32    == CastU32(start[2])
                      e32    == CastU32(end[2])
                      new_lo == AddU32(span.lo, s32.v)
                      new_hi == AddU32(span.lo, e32.v)
                  IN  [some |-> TRUE,
                       span |-> WithHi(WithLo(span, new_lo.v), new_hi.v),
                       fault |-> chk.fault \/ s32.lossy \/ e32.lossy
                                 \/ new_lo.lossy \/ new_hi.lossy]

LiteralSubspan(start_bound, end_bound) ==
    /\ frames = <<>>
    /\ literal # NoLiteral
    /\ LET r == LiteralSubspanOf(literal, start_bound, end_bound) IN
       call' = [op |-> "Literal::subspan",
                arg |-> [literal |-> literal, start |-> start_bound, end |-> end_bound],
                from |-> <<>>, state |-> IF r.fault THEN "panic" ELSE "ok", ret |-> r]
    /\ UNCHANGED <<rustc, rebased_spans, symbol_gallery,
                   frames, literal, resolver_calls,
                   client_group, diags, emitted, proc_macro_quoted_spans>>

(***************************************************************************)
(* SpecSub: a literal is made (a constructor, from_str), its span possibly *)
(* replaced, and subspan is asked once.                                    *)
(***************************************************************************)
BoundValues ==
    {0, 1, 2, 3, 4, 5, U32_MAX - 4, U32_MAX - 1, U32_MAX, U32_MAX + 1, USIZE_MAX - 1, USIZE_MAX}

Bounds == {Included(v) : v \in BoundValues} \cup {Excluded(v) : v \in BoundValues} \cup {Unbounded}

SetSpans ==
    { Sp(0, 0, "root"), Sp(0, 3, "root"), Sp(2, 7, "call"), Sp(0, U32_MAX, "root"),
      Sp(U32_MAX - 3, U32_MAX, "def"), Sp(U32_MAX - 4, U32_MAX - 1, "def"),
      Sp(U32_MAX, U32_MAX, "root") }

NextSub ==
    \/ call = NoCall /\ \E n \in {<<"1">>, <<"1", "2", "3", "4", "5", "6">>} : LiteralInteger(n)
    \/ call = NoCall /\ \E ps \in {q \in Sources : WellFormedLiteralText(q)} :
                           LiteralFromStrCall(ps, 0)
    \/ call.op # "Literal::subspan" /\ \E span \in SetSpans : LiteralSetSpan(span)
    \/ call.op # "Literal::subspan" /\ \E start \in Bounds, end \in Bounds :
                                          LiteralSubspan(start, end)

SpecSub == InitIdle /\ [][NextSub]_vars

\* The offsets the bounds stand for; `none` when the + 1 leaves usize.
StartOffset(b) ==
    IF b.b = "Unbounded" THEN 0 ELSE IF b.b = "Included" THEN b.v ELSE b.v + 1

EndOffset(b, length) ==
    IF b.b = "Unbounded" THEN length ELSE IF b.b = "Excluded" THEN b.v ELSE b.v + 1

SubspanRejects(L) ==
    call.op = "Literal::subspan" =>
        LET l     == call.arg.literal
            start == StartOffset(call.arg.start)
            end   == EndOffset(call.arg.end, l.span.hi - l.span.lo)
        IN  ( \/ start >= end
              \/ end > L
              \/ start > U32_MAX
              \/ end > U32_MAX
              \/ l.span.lo + start > U32_MAX
              \/ l.span.lo + end > U32_MAX ) => ~call.ret.some

C7_SubspanTotal ==
    call.op = "Literal::subspan" =>
        /\ call.state = "ok"
        /\ call.ret.some =>
             /\ call.arg.literal.span.lo <= call.ret.span.lo
             /\ call.ret.span.lo < call.ret.span.hi
             /\ call.ret.span.hi <= call.arg.literal.span.hi

C7_Witness ==
    /\ call.op = "Literal::subspan"
    /\ call.arg.start = Included(0)
    /\ call.arg.end = Excluded(1)
    /\ call.arg.literal.span = Sp(U32_MAX - 3, U32_MAX, "def")
    /\ call.ret.some
    /\ call.ret.span = Sp(U32_MAX - 3, U32_MAX - 2, "def")

C7_WitnessMax ==
    /\ call.op = "Literal::subspan"
    /\ call.arg.start = Excluded(USIZE_MAX)
    /\ ~call.ret.some
    /\ call.state = "ok"

(***************************************************************************)
(* Rustc::new for a further invocation: a fresh facade, an empty cache.    *)
(* The session (symbol_gallery) lives on; the client's values do not.      *)
(***************************************************************************)
RustcNew(expn_data) ==
    /\ frames = <<>>
    /\ ecx' = expn_data
    /\ LET r == RustcFields(expn_data) IN
       /\ def_site' = r.def_site
       /\ call_site' = r.call_site
       /\ mixed_site' = r.mixed_site
       /\ krate' = r.krate
       /\ rebased_spans' = r.rebased_spans
    /\ resolver_calls' = [id \in SpanIds |-> <<>>]
    /\ literal' = NoLiteral
    /\ client_group' = NoGroup
    /\ diags' = [h \in DOMAIN diags |-> Taken]
    /\ call' = [op |-> "Rustc::new", arg |-> expn_data, from |-> <<>>, state |-> "ok",
                ret |-> <<>>]
    /\ UNCHANGED <<symbol_gallery, frames, emitted, proc_macro_quoted_spans>>

(***************************************************************************)
(* The source map: files with distinct names at disjoint position ranges.  *)
(***************************************************************************)
SourceFiles ==
    { [name |-> "a.rs", start_pos |-> 0, end_pos |-> 9],
      [name |-> "b.rs", start_pos |-> 10, end_pos |-> 19],
      [name |-> "<proc-macro source code>", start_pos |-> 20, end_pos |-> U32_MAX] }

\* SourceMap::lookup_char_pos(pos).file
LookupFile(pos) == CHOOSE f \in SourceFiles : f.start_pos <= pos /\ pos <= f.end_pos

\* Span::to
SpanTo(first, second) == Sp(first.lo, second.hi, first.ctxt)

(***************************************************************************)
(* server::Span::join, resolved_at                                         *)
(***************************************************************************)
\* (a variant that joins whatever the files)
SpanJoinOfAlways(first, second) == Some(SpanTo(first, second))

SpanJoinOf(first, second) ==
    LET self_loc  == LookupFile(first.lo)
        other_loc == LookupFile(second.lo)
    IN  IF self_loc.name # other_loc.name THEN None
        ELSE Some(SpanTo(first, second))

SpanJoin(first, second) ==
    /\ frames = <<>>
    /\ call' = [op |-> "Span::join", arg |-> [first |-> first, second |-> second],
                from |-> <<>>, state |-> "ok", ret |-> SpanJoinOf(first, second)]
    /\ UNCHANGED <<rustc, rebased_spans, symbol_gallery, frames, literal, resolver_calls,
                   client_group, diags, emitted, proc_macro_quoted_spans>>

SpanResolvedAt(span, at) ==
    /\ frames = <<>>
    /\ call' = [op |-> "Span::resolved_at", arg |-> [span |-> span, at |-> at],
                from |-> <<>>, state |-> "ok", ret |-> WithCtxt(span, at.ctxt)]
    /\ UNCHANGED <<rustc, rebased_spans, symbol_gallery, frames, literal, resolver_calls,
                   client_group, diags, emitted, proc_macro_quoted_spans>>

(***************************************************************************)
(* server::Span::recover_proc_macro_span.  `answer` is what the resolver   *)
(* would say if asked now; nothing here makes it say the same twice.       *)
(***************************************************************************)
\* (a variant that asks the resolver every time)
RecoverProcMacroSpanUncached(cache, id, answer, def) ==
    LET span == WithCtxt(answer, def.ctxt)
    IN  [span |-> span, cached |-> FALSE, cache |-> [cache EXCEPT ![id] = span]]

\* rebased_spans.entry(id).or_insert_with(..)
RecoverProcMacroSpan(cache, id, answer, def) ==
    IF cache[id] # NoSpan
    THEN [span |-> cache[id], cached |-> TRUE, cache |-> cache]
    ELSE LET span == WithCtxt(answer, def.ctxt)
         IN  [span |-> span, cached |-> FALSE, cache |-> [cache EXCEPT ![id] = span]]

\* What get_proc_macro_quoted_span(krate, id) may answer.
QuotedSpans == {Sp(0, 3, "root"), Sp(13, 15, "root")}

SpanRecover(id) ==
    /\ frames = <<>>
    /\ Len(resolver_calls[id]) < MaxResolverCalls
    /\ \E answer \in QuotedSpans :
         LET r == RecoverProcMacroSpan(rebased_spans, id, answer, def_site) IN
         /\ rebased_spans' = r.cache
         /\ resolver_calls' = IF r.cached THEN resolver_calls
                              ELSE [resolver_calls EXCEPT ![id] = Append(@, answer)]
         /\ call' = [op |-> "Span::recover_proc_macro_span", arg |-> id, from |-> <<>>,
                     state |-> "ok", ret |-> [span |-> r.span, cached |-> r.cached]]
    /\ UNCHANGED <<rustc, symbol_gallery, frames, literal,
                   client_group, diags, emitted, proc_macro_quoted_spans>>


(***************************************************************************)
(* server::Ident::new.  Symbol::intern(string) is the text itself; a panic *)
(* aborts the call and nothing is returned.                                *)
(***************************************************************************)
IdentNewCall(string, span, is_raw) ==
    /\ frames = <<>>
    /\ LET r == IdentNew(symbol_gallery, string, is_raw, span) IN
       /\ symbol_gallery' = r.gallery
       /\ call' = [op |-> "Ident::new",
                   arg |-> [string |-> string, span |-> span, is_raw |-> is_raw],
                   from |-> <<>>,
                   state |-> IF r.panic # "" THEN "panic" ELSE "ok",
                   ret |-> IF r.panic # "" THEN r.panic ELSE r.ident]
    /\ UNCHANGED <<rustc, rebased_spans, frames, literal, resolver_calls,
                   client_group, diags, emitted, proc_macro_quoted_spans>>

\* The texts a client hands to Ident::new: identifiers, text with a space,
\* text starting with a digit, unnormalised text, keywords, the empty text.
IdentTexts ==
    { <<"a">>, <<"a", "1">>, <<"e", "CA">>, <<"E'">>, <<"a", " ", "b">>, <<"1", "a">>,
      <<>>, <<"CA">>, kw_Underscore, kw_SelfLower, kw_DollarCrate }

NextIdent ==
    \E string \in IdentTexts, span \in TokenSpans, is_raw \in BOOLEAN :
        IdentNewCall(string, span, is_raw)

SpecIdent == InitIdle /\ [][NextIdent]_vars

\* What the texts of IdentTexts are, by the language's rules: the NFC form of
\* each, which of them are identifiers, which identifiers may be raw.
NormalForm(string) == IF string = <<"e", "CA">> THEN <<"E'">> ELSE string

ValidIdentifiers == {<<"a">>, <<"a", "1">>, <<"E'">>, kw_Underscore, kw_SelfLower}

RawEligible == {<<"a">>, <<"a", "1">>, <<"E'">>}

\* What an Ident::new step must do, but for the gallery on success.
IdentNewContract ==
    LET a   == call'.arg
        sym == NormalForm(a.string)
        bad == sym \notin ValidIdentifiers \/ (a.is_raw /\ sym \notin RawEligible)
    IN  IF bad
        THEN /\ call'.state = "panic"
             /\ symbol_gallery' = symbol_gallery
        ELSE /\ call'.state = "ok"
             /\ call'.ret = [tt |-> "Ident", sym |-> sym, is_raw |-> a.is_raw, span |-> a.span]
             /\ symbol_gallery \subseteq symbol_gallery'

IdentNewSucceeds == call'.op = "Ident::new" /\ call'.state = "ok"

\* C11 as stated: Ident::new panics on text that is not an identifier after
\* normalisation and on a raw request for an ineligible name, leaving the
\* gallery unchanged; on success the Ident carries the normalised symbol, the
\* raw flag and the span, and exactly one (symbol, span) entry is inserted.
C11_IdentNewInsertsOne ==
    [][call'.op = "Ident::new" =>
         /\ IdentNewContract
         /\ IdentNewSucceeds =>
              /\ [sym |-> call'.ret.sym, span |-> call'.arg.span] \in symbol_gallery'
              /\ Cardinality(symbol_gallery') = Cardinality(symbol_gallery) + 1]_vars

\* C11: as above, but on success the gallery gains the (normalised symbol,
\* span) entry only if the symbol has no entry yet; a symbol already in the
\* gallery keeps the span it was first seen with and nothing is inserted.
C11_IdentNew ==
    [][call'.op = "Ident::new" =>
         /\ IdentNewContract
         /\ IdentNewSucceeds =>
              LET sym == call'.ret.sym
                  known == \E e \in symbol_gallery : e.sym = sym
              IN  symbol_gallery' =
                    IF known THEN symbol_gallery
                    ELSE symbol_gallery \cup {[sym |-> sym, span |-> call'.arg.span]}]_vars

C11_Witness ==
    /\ call.op = "Ident::new"
    /\ call.state = "panic"
    /\ call.arg.string = kw_Underscore
    /\ call.arg.is_raw
    /\ symbol_gallery = {[sym |-> <<"E'">>, span |-> Sp(4, 6, "call")]}

(***************************************************************************)
(* server::Diagnostic.  A Diagnostic is [level, message, span, children];  *)
(* the client names it by a handle, and emit takes it by value.            *)
(***************************************************************************)
\* Level::to_internal
LevelToInternal(level) ==
    CASE level = "Error" -> "Error { lint: false }"
      [] level = "Warning" -> "Warning(None)"
      [] level = "Note" -> "Note"
      [] level = "Help" -> "Help"

\* MultiSpan::from_spans
MultiSpanFromSpans(spans) == [primary_spans |-> spans, span_labels |-> <<>>]

\* The size of the handle store: each handle given out and each child of a
\* Diagnostic still in it.
RECURSIVE DiagNodes(_)
DiagNodes(ds) ==
    IF ds = <<>> THEN 0
    ELSE 1 + Len(Head(ds).children) + DiagNodes(Tail(ds))

DiagnosticNew(level, msg, spans) ==
    /\ frames = <<>>
    /\ diags' = Append(diags, [level |-> LevelToInternal(level), message |-> msg,
                               span |-> MultiSpanFromSpans(spans), children |-> <<>>])
    /\ call' = [op |-> "Diagnostic::new",
                arg |-> [level |-> level, msg |-> msg, spans |-> spans],
                from |-> <<>>, state |-> "ok", ret |-> Len(diags) + 1]
    /\ UNCHANGED <<rustc, rebased_spans, symbol_gallery, frames, literal, resolver_calls,
                   client_group, emitted, proc_macro_quoted_spans>>

DiagnosticSub(diag, level, msg, spans) ==
    /\ frames = <<>>
    /\ diag \in DOMAIN diags
    /\ diags[diag] # Taken
    /\ diags' = [diags EXCEPT ![diag].children =
                    Append(@, [level |-> LevelToInternal(level), message |-> msg,
                               span |-> MultiSpanFromSpans(spans)])]
    /\ call' = [op |-> "Diagnostic::sub",
                arg |-> [diag |-> diag, level |-> level, msg |-> msg, spans |-> spans],
                from |-> <<>>, state |-> "ok", ret |-> <<>>]
    /\ UNCHANGED <<rustc, rebased_spans, symbol_gallery, frames, literal, resolver_calls,
                   client_group, emitted, proc_macro_quoted_spans>>

\* (a variant that leaves the Diagnostic with the client)
DiagnosticEmitKeeps(diag) ==
    /\ frames = <<>>
    /\ diag \in DOMAIN diags
    /\ diags[diag] # Taken
    /\ emitted' = Append(emitted, diags[diag])
    /\ call' = [op |-> "Diagnostic::emit", arg |-> diag, from |-> <<>>, state |-> "ok",
                ret |-> <<>>]
    /\ UNCHANGED <<rustc, rebased_spans, symbol_gallery, frames, literal, resolver_calls,
                   client_group, diags, proc_macro_quoted_spans>>

DiagnosticEmit(diag) ==
    /\ frames = <<>>
    /\ diag \in DOMAIN diags
    /\ diags[diag] # Taken
    /\ diags' = [diags EXCEPT ![diag] = Taken]
    /\ emitted' = Append(emitted, diags[diag])
    /\ call' = [op |-> "Diagnostic::emit", arg |-> diag, from |-> <<>>, state |-> "ok",
                ret |-> <<>>]
    /\ UNCHANGED <<rustc, rebased_spans, symbol_gallery, frames, literal, resolver_calls,
                   client_group, proc_macro_quoted_spans>>

\* SpecDiag: any sequence of Diagnostic calls, with up to MaxDiagNodes handles
\* and children in the store.
NextDiag ==
    \/ /\ DiagNodes(diags) < MaxDiagNodes
       /\ \E level \in {"Error", "Warning", "Note", "Help"},
             spans \in {<<>>, <<Sp(0, 3, "root"), Sp(4, 6, "call")>>} :
            DiagnosticNew(level, <<"m">>, spans)
    \/ /\ DiagNodes(diags) < MaxDiagNodes
       /\ \E diag \in DOMAIN diags, level \in {"Note", "Help"} :
            DiagnosticSub(diag, level, <<"n">>, <<Sp(4, 6, "call")>>)
    \/ \E diag \in DOMAIN diags : DiagnosticEmit(diag)

SpecDiag == InitIdle /\ [][NextDiag]_vars

\* C12: Diagnostic new and sub leave the renderer's queue as it is; each emit
\* appends exactly one diagnostic, the one the handle named, and takes it from
\* the client, so that as many diagnostics were emitted as handles were taken
\* and none was emitted twice; a diagnostic never emitted is not in the queue.
C12_OnlyEmitOutputs ==
    /\ [](Len(emitted) = Cardinality({h \in DOMAIN diags : diags[h] = Taken}))
    /\ [][/\ call'.op \in {"Diagnostic::new", "Diagnostic::sub"} => emitted' = emitted
          /\ call'.op = "Diagnostic::emit" =>
               /\ emitted' = Append(emitted, diags[call'.arg])
               /\ diags[call'.arg] # Taken
               /\ diags'[call'.arg] = Taken
               /\ \A h \in DOMAIN diags : h # call'.arg => diags'[h] = diags[h]]_vars

C12_Witness ==
    /\ call.op = "Diagnostic::emit"
    /\ call.arg = 1
    /\ Len(diags) = 2
    /\ diags[2] # Taken
    /\ Len(emitted) = 1
    /\ emitted[1].level = "Error { lint: false }"
    /\ Len(emitted[1].children) = 1

(***************************************************************************)
(* server::TokenStream::expand_expr.  The parser and the expander are      *)
(* outside this file; they are modelled on a small expression language:    *)
(* literals, paths, unary - and !, binary + and -, parentheses, and macro  *)
(* calls `a ! ( .. )`.  An expression is a record with a `kind`.           *)
(***************************************************************************)
\* Parser::parse_expr: [ok, expr, rest]; `rest` is what follows the expression.
ParseExpr(stream) ==
    LET Fail == [ok |-> FALSE, expr |-> <<>>, rest |-> <<>>]
        Done(e, rest) == [ok |-> TRUE, expr |-> e, rest |-> rest]
        At(ts, kind) == ts # <<>> /\ Head(ts).tree.tree = "Token" /\ Head(ts).tree.kind = kind
        RECURSIVE Primary(_), Unary(_), BinaryRest(_, _)
        Primary(ts) ==
            IF ts = <<>> THEN Fail
            ELSE LET t == Head(ts).tree IN
                 IF t.tree = "Delimited"
                 THEN IF t.delim # "Parenthesis" THEN Fail
                      ELSE IF t.tts = <<>>
                      THEN Done([kind |-> "Tup", span |-> t.span.open], Tail(ts))
                      ELSE LET l == Unary(t.tts)
                               inner == IF l.ok THEN BinaryRest(l.expr, l.rest) ELSE Fail
                           IN  IF inner.ok /\ inner.rest = <<>>
                               THEN Done([kind |-> "Paren", e |-> inner.expr,
                                          span |-> t.span.open], Tail(ts))
                               ELSE Fail
                 ELSE IF t.kind.k = "Literal"
                 THEN Done([kind |-> "Lit", token |-> t.kind.lit, span |-> t.span], Tail(ts))
                 ELSE IF t.kind.k = "Ident"
                 THEN IF At(Tail(ts), K("Not"))
                      THEN IF Len(ts) >= 3 /\ ts[3].tree.tree = "Delimited"
                           THEN Done([kind |-> "MacCall", span |-> t.span], SubSeq(ts, 4, Len(ts)))
                           ELSE Fail
                      ELSE Done([kind |-> "Path", span |-> t.span], Tail(ts))
                 ELSE Fail
        Unary(ts) ==
            IF At(ts, BinOp("Minus")) \/ At(ts, K("Not"))
            THEN LET r == Unary(Tail(ts)) IN
                 IF r.ok
                 THEN Done([kind |-> "Unary",
                            op |-> IF At(ts, K("Not")) THEN "Not" ELSE "Neg",
                            e |-> r.expr, span |-> Head(ts).tree.span], r.rest)
                 ELSE Fail
            ELSE Primary(ts)
        BinaryRest(lhs, ts) ==
            IF At(ts, BinOp("Plus")) \/ At(ts, BinOp("Minus"))
            THEN LET r == Unary(Tail(ts)) IN
                 IF r.ok
                 THEN BinaryRest([kind |-> "Binary", lhs |-> lhs, rhs |-> r.expr,
                                  span |-> lhs.span], r.rest)
                 ELSE Fail
            ELSE Done(lhs, ts)
        first == Unary(stream)
    IN  IF first.ok THEN BinaryRest(first.expr, first.rest) ELSE Fail

\* fully_expand_fragment(..).make_expr(): every macro call gives way to what
\* the macro expands to, `body`.
RECURSIVE FullyExpand(_, _)
FullyExpand(expr, body) ==
    CASE expr.kind = "MacCall" -> body
      [] expr.kind = "Unary" -> [expr EXCEPT !.e = FullyExpand(expr.e, body)]
      [] expr.kind = "Paren" -> [expr EXCEPT !.e = FullyExpand(expr.e, body)]
      [] expr.kind = "Binary" -> [expr EXCEPT !.lhs = FullyExpand(expr.lhs, body),
                                              !.rhs = FullyExpand(expr.rhs, body)]
      [] OTHER -> expr

\* What the macro `a` may expand to.
MacroBodies ==
    LET lit(k, s) == [kind |-> "Lit", token |-> Lit(k, s, None), span |-> Sp(4, 6, "call")]
        neg(e) == [kind |-> "Unary", op |-> "Neg", e |-> e, span |-> Sp(4, 6, "call")]
    IN  { lit("Integer", <<"2">>), lit("Str", <<"b">>), neg(lit("Float", <<"1", ".", "5">>)),
          neg(lit("Char", <<"c">>)), neg(neg(lit("Integer", <<"2">>))),
          [kind |-> "Path", span |-> Sp(4, 6, "call")] }

\* The diagnostic of a parse error.
ParseError ==
    [level |-> "Error { lint: false }", message |-> <<"p">>,
     span |-> MultiSpanFromSpans(<<>>), children |-> <<>>]

\* (a variant that accepts the negation of any literal)
ExpandExprNegatesAny(stream, body) ==
    LET p == ParseExpr(stream) IN
    IF ~p.ok \/ p.rest # <<>>
    THEN [result |-> [ok |-> FALSE, stream |-> <<>>], emit |-> <<ParseError>>]
    ELSE LET expr == FullyExpand(p.expr, body) IN
         IF expr.kind = "Lit"
         THEN [result |-> [ok |-> TRUE, stream |-> Into(Token(KLiteral(expr.token), expr.span))],
               emit |-> <<>>]
         ELSE IF expr.kind = "Unary" /\ expr.op = "Neg" /\ expr.e.kind = "Lit"
         THEN [result |-> [ok |-> TRUE,
                           stream |-> <<TreeAndSpacing(Token(BinOp("Minus"), expr.e.span),
                                                       "Alone"),
                                        TreeAndSpacing(Token(KLiteral(expr.e.token),
                                                             expr.e.span), "Alone")>>],
               emit |-> <<>>]
         ELSE [result |-> [ok |-> FALSE, stream |-> <<>>], emit |-> <<>>]

\* expand_expr: [result, emit]
ExpandExprOf(stream, body) ==
    LET p == ParseExpr(stream) IN
    IF ~p.ok \/ p.rest # <<>>
    THEN [result |-> [ok |-> FALSE, stream |-> <<>>], emit |-> <<ParseError>>]
    ELSE LET expr == FullyExpand(p.expr, body) IN
         IF expr.kind = "Lit"
         THEN [result |-> [ok |-> TRUE, stream |-> Into(Token(KLiteral(expr.token), expr.span))],
               emit |-> <<>>]
         ELSE IF expr.kind = "Unary" /\ expr.op = "Neg" /\ expr.e.kind = "Lit"
                 /\ expr.e.token.kind \in {"Integer", "Float"}
         THEN [result |-> [ok |-> TRUE,
                           stream |-> <<TreeAndSpacing(Token(BinOp("Minus"), expr.e.span),
                                                       "Alone"),
                                        TreeAndSpacing(Token(KLiteral(expr.e.token),
                                                             expr.e.span), "Alone")>>],
               emit |-> <<>>]
         ELSE [result |-> [ok |-> FALSE, stream |-> <<>>], emit |-> <<>>]

ExpandExpr(stream, body) ==
    /\ frames = <<>>
    /\ LET r == ExpandExprOf(stream, body) IN
       /\ emitted' = emitted \o r.emit
       /\ call' = [op |-> "TokenStream::expand_expr", arg |-> stream, from |-> body,
                   state |-> "ok", ret |-> r.result]
    /\ UNCHANGED <<rustc, rebased_spans, symbol_gallery, frames, literal, resolver_calls,
                   client_group, diags, proc_macro_quoted_spans>>

\* The tokens of the streams handed to expand_expr.
ExprTokens ==
    {TreeAndSpacing(Token(k, Sp(0, 3, "root")), "Alone") :
        k \in {KLiteral(Lit("Integer", <<"1">>, None)), KLiteral(Lit("Str", <<"a">>, None)),
               BinOp("Minus"), BinOp("Plus"), K("Not"), K("Semi"), KIdent(<<"a">>, FALSE)}}
    \cup {TreeAndSpacing(Delimited(DelimSpanFromSingle(Sp(0, 3, "root")), "Parenthesis", tts),
                         "Alone") :
            tts \in {<<>>, <<TreeAndSpacing(Token(KLiteral(Lit("Integer", <<"1">>, None)),
                                                  Sp(0, 3, "root")), "Alone")>>}}

\* SpecExpr: one expand_expr call on any stream of up to MaxExprTokens trees.
NextExpr ==
    /\ call = NoCall
    /\ \E stream \in SeqsUpTo(ExprTokens, MaxExprTokens), body \in MacroBodies :
         ExpandExpr(stream, body)

SpecExpr == InitIdle /\ [][NextExpr]_vars

\* Whether an expression is a literal, or the negation of a literal of one of
\* the kinds `kinds`.
LiteralShape(expr, kinds) ==
    \/ expr.kind = "Lit"
    \/ /\ expr.kind = "Unary"
       /\ expr.op = "Neg"
       /\ expr.e.kind = "Lit"
       /\ expr.e.token.kind \in kinds

\* What expand_expr must answer if the negations it accepts are those of the
\* literal kinds `kinds`.
ExpandExprContract(kinds) ==
    call.op = "TokenStream::expand_expr" =>
        LET p == ParseExpr(call.arg)
            complete == p.ok /\ p.rest = <<>>
            accepted == complete /\ LiteralShape(FullyExpand(p.expr, call.from), kinds)
        IN  /\ call.state = "ok"
            /\ call.ret.ok <=> accepted
            /\ emitted = IF complete THEN <<>> ELSE <<ParseError>>

\* C13 as stated: expand_expr succeeds exactly when the stream parses as one
\* complete expression whose expansion is a literal or the negation of a
\* literal; every other outcome is a returned failure, never an abort, and a
\* parse error (trailing tokens included) emits one diagnostic.
C13_ExpandExprAnyNegation == ExpandExprContract(LitKinds)

\* C13: as above, where the negation of a literal is accepted only for an
\* integer or float literal; the negation of a literal of any other kind is a
\* returned failure.
C13_ExpandExpr == ExpandExprContract({"Integer", "Float"})

C13_Witness ==
    /\ call.op = "TokenStream::expand_expr"
    /\ Len(call.arg) = 4
    /\ call.arg[1].tree = Token(BinOp("Minus"), Sp(0, 3, "root"))
    /\ call.arg[2].tree = Token(KIdent(<<"a">>, FALSE), Sp(0, 3, "root"))
    /\ call.from.kind = "Lit"
    /\ call.from.token.kind = "Integer"
    /\ call.ret.ok
    /\ Len(call.ret.stream) = 2

(***************************************************************************)
(* The lexer on text rather than on pieces: how it splits a text of this   *)
(* model's alphabet.  A number is digits, a fraction if a "." follows that *)
(* is not followed by another "." or a letter, and a suffix if a letter    *)
(* follows; quoted literals run to the closing quote, a backslash taking   *)
(* the next character with it; a suffix may follow any literal.            *)
(***************************************************************************)
Scan(text) ==
    LET n == Len(text)
        Digits == {"1", "2", "3", "4", "5", "6", "8"}
        Letters == (IdStart \ {"E'"}) \cup {"f", "u", "r", "x", "n"}
        ch(i) == IF i <= n THEN text[i] ELSE "EOF"
        RECURSIVE Run(_, _), Closing(_, _, _), From(_)
        \* the first position from i on that holds no character of S
        Run(i, S) == IF i <= n /\ text[i] \in S THEN Run(i + 1, S) ELSE i
        \* the position of the closing quote q from i on; 0 if there is none
        Closing(i, q, escapes) ==
            IF i > n THEN 0
            ELSE IF escapes /\ text[i] = "BS" THEN Closing(i + 2, q, escapes)
            ELSE IF text[i] = q THEN i
            ELSE Closing(i + 1, q, escapes)
        Cut(lo, hi, kind) == [piece |-> Piece(SubSeq(text, lo, hi - 1), kind), next |-> hi]
        \* a literal at lo whose payload is [slo, shi) and whose body ends before b
        LitAt(lo, kind, slo, shi, b) ==
            LET e == IF ch(b) \in Letters THEN Run(b, Letters \cup Digits) ELSE b
            IN  Cut(lo, e, KLiteral(Lit(kind, SubSeq(text, slo, shi - 1),
                                        IF e > b THEN Some(SubSeq(text, b, e - 1)) ELSE None)))
        Quoted(lo, p, kind, escapes) ==
            LET close == Closing(lo + p + 1, text[lo + p], escapes)
            IN  IF close = 0 THEN Cut(lo, n + 1, K("Unknown"))
                ELSE LitAt(lo, kind, lo + p + 1, close, close + 1)
        Single(lo, p, kind) ==
            LET q == lo + p
            IN  IF ch(q + 1) = "'" THEN LitAt(lo, "Err", q + 1, q + 1, q + 2)
                ELSE IF ch(q + 1) = "BS" /\ ch(q + 3) = "'" THEN LitAt(lo, kind, q + 1, q + 3, q + 4)
                ELSE IF ch(q + 1) \notin {"BS", "EOF"} /\ ch(q + 2) = "'"
                THEN LitAt(lo, kind, q + 1, q + 2, q + 3)
                ELSE Cut(lo, q + 1, K("Unknown"))
        Number(lo) ==
            LET d == Run(lo, Digits)
                fraction == ch(d) = "." /\ ch(d + 1) # "." /\ ch(d + 1) \notin Letters
                b == IF fraction THEN Run(d + 1, Digits) ELSE d
            IN  LitAt(lo, IF fraction THEN "Float" ELSE "Integer", lo, b, b)
        At(i) ==
            CASE text[i] \in {" ", "NL"} -> Cut(i, Run(i, {" ", "NL"}), K("Whitespace"))
              [] text[i] \in Digits -> Number(i)
              [] text[i] = "DQ" -> Quoted(i, 0, "Str", TRUE)
              [] text[i] = "'" -> Single(i, 0, "Char")
              [] text[i] = "b" /\ ch(i + 1) = "DQ" -> Quoted(i, 1, "ByteStr", TRUE)
              [] text[i] = "b" /\ ch(i + 1) = "'" -> Single(i, 1, "Byte")
              [] text[i] = "r" /\ ch(i + 1) = "DQ" -> Quoted(i, 1, "StrRaw", FALSE)
              [] text[i] = "-" -> Cut(i, i + 1, BinOp("Minus"))
              [] text[i] \in Letters /\ ~(text[i] \in {"b", "r"} /\ ch(i + 1) \in {"DQ", "'"}) ->
                    LET e == Run(i, Letters \cup Digits)
                    IN  Cut(i, e, KIdent(SubSeq(text, i, e - 1), FALSE))
              [] OTHER -> Cut(i, i + 1, K("Unknown"))
        From(i) == IF i > n THEN <<>> ELSE LET t == At(i) IN <<t.piece>> \o From(t.next)
    IN  From(1)

(***************************************************************************)
(* The Literal constructors, to_string, and from_str on a formatted text.  *)
(***************************************************************************)
\* format!("{:?}", _) of a str (quote = DQ) or a char (quote = '): the
\* other quote is left as it is.
DebugEscape(ch, quote) ==
    IF ch \in {"'", "DQ"} /\ ch # quote THEN <<ch>> ELSE EscapeDebug(ch)

\* The literal each constructor makes of its argument.
LiteralOf(method, text, kind) ==
    CASE method = "Literal::integer" -> RustcLit("Integer", text, None)
      [] method = "Literal::typed_integer" -> RustcLit("Integer", text, Some(kind))
      [] method = "Literal::float" -> RustcLit("Float", text, None)
      [] method = "Literal::f32" -> RustcLit("Float", text, Some(<<"f", "3", "2">>))
      [] method = "Literal::f64" -> RustcLit("Float", text, Some(<<"f", "6", "4">>))
      [] method = "Literal::string" ->
            LET quoted == <<"DQ">> \o Concat([i \in 1..Len(text) |-> DebugEscape(text[i], "DQ")])
                          \o <<"DQ">>
            IN  RustcLit("Str", SubSeq(quoted, 2, Len(quoted) - 1), None)
      [] method = "Literal::character" ->
            LET quoted == <<"'">> \o DebugEscape(text[1], "'") \o <<"'">>
            IN  RustcLit("Char", SubSeq(quoted, 2, Len(quoted) - 1), None)
      [] method = "Literal::byte_string" -> RustcLit("ByteStr", EscapeAll(text), None)

LiteralNew(method, text, kind) ==
    ConstructorCall(method, [text |-> text, kind |-> kind], LiteralOf(method, text, kind))

\* server::Literal::to_string
LiteralToString ==
    /\ frames = <<>>
    /\ literal # NoLiteral
    /\ call' = [op |-> "Literal::to_string", arg |-> literal, from |-> <<>>, state |-> "ok",
                ret |-> LitToString(literal.lit)]
    /\ UNCHANGED <<rustc, rebased_spans, symbol_gallery, frames, literal, resolver_calls,
                   client_group, diags, emitted, proc_macro_quoted_spans>>

\* from_str on the text to_string has just answered
LiteralReparse(start) ==
    /\ frames = <<>>
    /\ Returned("Literal::to_string")
    /\ LET r == LiteralFromStr(call.ret, Lex(Scan(call.ret), start), call_site) IN
       /\ call' = [op |-> "Literal::from_str(to_string)", arg |-> call.ret, from |-> call.arg,
                   state |-> IF r.panic # "" THEN "panic" ELSE "ok", ret |-> r]
       /\ literal' = IF r.ok THEN r.literal ELSE literal
    /\ UNCHANGED <<rustc, rebased_spans, symbol_gallery, frames, resolver_calls,
                   client_group, diags, emitted, proc_macro_quoted_spans>>

\* SpecText: a literal from a constructor or from from_str, formatted and
\* parsed again.
NextText ==
    \/ /\ call = NoCall
       /\ \E method \in {"Literal::integer", "Literal::typed_integer", "Literal::float",
                         "Literal::f32", "Literal::f64"},
             text \in {<<"1">>, <<"1", "2">>, <<"-", "1">>, <<"1", ".", "5">>,
                       <<"-", "1", ".", "5">>, <<"a">>, <<"1", " ">>, <<>>},
             kind \in {<<"u", "8">>} :
            LiteralNew(method, text, kind)
    \/ /\ call = NoCall
       /\ \E method \in {"Literal::string", "Literal::byte_string", "Literal::character"},
             text \in {<<"a">>, <<"DQ">>, <<"'">>, <<"BS">>, <<"NL">>, <<"a", "DQ">>, <<>>} :
            /\ method = "Literal::character" => Len(text) = 1
            /\ LiteralNew(method, text, <<>>)
    \/ /\ call = NoCall
       /\ \E ps \in {q \in Sources : WellFormedLiteralText(q)}, start \in FileStarts :
            LiteralFromStrCall(ps, start)
    \/ call.op # "Literal::to_string" /\ LiteralToString
    \/ \E start \in FileStarts : LiteralReparse(start)

SpecText == InitIdle /\ [][NextText]_vars

\* C15 as stated: every literal a constructor or from_str gives, formatted by
\* to_string and parsed by from_str, comes back: from_str succeeds and the
\* literal has the same kind, payload and suffix.
C15_RoundTrip ==
    call.op = "Literal::from_str(to_string)" =>
        /\ call.state = "ok"
        /\ call.ret.ok
        /\ call.ret.literal.lit = call.from.lit

\* The literal f32("1"), which formats as 1f32, comes back as an integer.
C15_Witness ==
    /\ call.op = "Literal::from_str(to_string)"
    /\ call.from.lit = Lit("Float", <<"1">>, Some(<<"f", "3", "2">>))
    /\ call.arg = <<"1", "f", "3", "2">>
    /\ call.ret.ok
    /\ call.ret.literal.lit = Lit("Integer", <<"1">>, Some(<<"f", "3", "2">>))

(***************************************************************************)
(* server::Group::new and set_span, server::Span::save_span,               *)
(* server::Server::globals.                                                *)
(***************************************************************************)
GroupNew(delimiter, stream) ==
    /\ frames = <<>>
    /\ client_group' = Group(delimiter, stream, DelimSpanFromSingle(call_site), FALSE)
    /\ call' = [op |-> "Group::new", arg |-> [delimiter |-> delimiter, stream |-> stream],
                from |-> <<>>, state |-> "ok", ret |-> client_group']
    /\ UNCHANGED <<rustc, rebased_spans, symbol_gallery, frames, literal, resolver_calls,
                   diags, emitted, proc_macro_quoted_spans>>

\* (a variant that moves the call site along with the group)
GroupSetSpanMovesCallSite(span) ==
    /\ frames = <<>>
    /\ client_group # NoGroup
    /\ client_group' = [client_group EXCEPT !.span = DelimSpanFromSingle(span)]
    /\ call_site' = span
    /\ call' = [op |-> "Group::set_span", arg |-> span, from |-> <<>>, state |-> "ok",
                ret |-> <<>>]
    /\ UNCHANGED <<ecx, def_site, mixed_site, krate, rebased_spans, symbol_gallery, frames,
                   literal, resolver_calls, diags, emitted, proc_macro_quoted_spans>>

GroupSetSpan(span) ==
    /\ frames = <<>>
    /\ client_group # NoGroup
    /\ client_group' = [client_group EXCEPT !.span = DelimSpanFromSingle(span)]
    /\ call' = [op |-> "Group::set_span", arg |-> span, from |-> <<>>, state |-> "ok",
                ret |-> <<>>]
    /\ UNCHANGED <<rustc, rebased_spans, symbol_gallery, frames, literal, resolver_calls,
                   diags, emitted, proc_macro_quoted_spans>>

\* save_span: ParseSess::save_proc_macro_span pushes the span and answers
\* its index.
SpanSaveSpan(span) ==
    /\ frames = <<>>
    /\ proc_macro_quoted_spans' = Append(proc_macro_quoted_spans, span)
    /\ call' = [op |-> "Span::save_span", arg |-> span, from |-> <<>>, state |-> "ok",
                ret |-> Len(proc_macro_quoted_spans)]
    /\ UNCHANGED <<rustc, rebased_spans, symbol_gallery, frames, literal, resolver_calls,
                   client_group, diags, emitted>>

ServerGlobals ==
    /\ frames = <<>>
    /\ call' = [op |-> "Server::globals", arg |-> <<>>, from |-> <<>>, state |-> "ok",
                ret |-> [def_site |-> def_site, call_site |-> call_site,
                         mixed_site |-> mixed_site]]
    /\ UNCHANGED <<rustc, rebased_spans, symbol_gallery, frames, literal, resolver_calls,
                   client_group, diags, emitted, proc_macro_quoted_spans>>

(***************************************************************************)
(* Spec: a facade and any sequence of bridge calls on it, and on the       *)
(* facades of later invocations.                                           *)
(***************************************************************************)
SomeSpans ==
    {Sp(0, 3, "root"), Sp(4, 6, "call"), Sp(2, 9, "root"), Sp(10, 12, "def"),
     Sp(13, 19, "root"), Sp(20, 24, "call"), Sp(25, 27, "mixed")}

SmallStreams ==
    { <<TreeAndSpacing(Token(KLifetime(<<"'", "a">>), Sp(4, 6, "call")), "Joint")>>,
      <<TreeAndSpacing(Token(KNt(<<TreeAndSpacing(Token(K("RArrow"), Sp(0, 3, "root")), "Joint")>>,
                                 TRUE), Sp(4, 6, "call")), "Alone")>> }

Next ==
    \/ \E expn_data \in Expansions : RustcNew(expn_data)
    \/ \E id \in SpanIds : SpanRecover(id)
    \/ \E first \in SomeSpans, second \in SomeSpans : SpanJoin(first, second)
    \/ \E span \in {Sp(0, 3, "root")}, at \in {Sp(10, 12, "def"), Sp(4, 6, "call")} :
         SpanResolvedAt(span, at)
    \/ \E n \in {<<"1">>} : LiteralInteger(n)
    \/ \E span \in {Sp(0, 3, "root"), Sp(13, 15, "def")} : LiteralSetSpan(span)
    \/ \E stream \in SmallStreams : IntoTreesCall(stream)
    \/ IntoTreesLoop
    \/ IntoTreesReturn

Spec == InitIdle /\ [][Next]_vars

\* C8: join answers the span from first's start to second's end when the two
\* spans lie in the same source file and nothing when they lie in different
\* files; it never answers a span whose ends lie in different files.
C8_JoinSameFile ==
    call.op = "Span::join" =>
        LET first  == call.arg.first
            second == call.arg.second
            same   == \E f \in SourceFiles :
                        /\ f.start_pos <= first.lo /\ first.hi <= f.end_pos
                        /\ f.start_pos <= second.lo /\ second.hi <= f.end_pos
        IN  /\ same => /\ call.ret # None
                       /\ call.ret[2].lo = first.lo
                       /\ call.ret[2].hi = second.hi
            /\ ~same => call.ret = None
            /\ call.ret # None =>
                 \E f \in SourceFiles : /\ f.start_pos <= call.ret[2].lo /\ call.ret[2].lo <= f.end_pos
                                        /\ f.start_pos <= call.ret[2].hi /\ call.ret[2].hi <= f.end_pos

C8_Witness ==
    /\ call.op = "Span::join"
    /\ call.arg.first = Sp(0, 3, "root")
    /\ call.arg.second = Sp(4, 6, "call")
    /\ call.ret = Some(Sp(0, 6, "root"))

C8_WitnessOtherFile ==
    /\ call.op = "Span::join"
    /\ call.arg.first = Sp(0, 3, "root")
    /\ call.arg.second = Sp(10, 12, "def")
    /\ call.ret = None

\* C9: within one facade, recover_proc_macro_span(id) always answers the span
\* the first call with that id answered: the byte range the resolver gave then,
\* with the definition site's hygiene context; the resolver is asked at most
\* once per id, a cached entry is never overwritten or removed, and a new
\* facade starts with an empty cache.
C9_RecoverMemoized ==
    /\ \A id \in SpanIds :
         /\ Len(resolver_calls[id]) <= 1
         /\ rebased_spans[id] = IF resolver_calls[id] = <<>> THEN NoSpan
                                ELSE Sp(resolver_calls[id][1].lo, resolver_calls[id][1].hi,
                                        def_site.ctxt)
    /\ call.op = "Span::recover_proc_macro_span" =>
         /\ resolver_calls[call.arg] # <<>>
         /\ call.ret.span = Sp(resolver_calls[call.arg][1].lo, resolver_calls[call.arg][1].hi,
                               def_site.ctxt)
    /\ call.op = "Rustc::new" => \A id \in SpanIds : rebased_spans[id] = NoSpan

C9_Witness ==
    /\ call.op = "Span::recover_proc_macro_span"
    /\ call.ret.cached
    /\ call.arg = 1
    /\ call.ret.span = Sp(13, 15, "def")
    /\ rebased_spans[0] = Sp(0, 3, "def")
    /\ krate = 2

(***************************************************************************)
(* SpecServer: a facade and any sequence of calls of every kind on it, and *)
(* on the facades of later invocations.                                    *)
(***************************************************************************)
NextServer ==
    \/ \E expn_data \in Expansions : RustcNew(expn_data)
    \/ ServerGlobals
    \/ IntoTreesCall(<<TreeAndSpacing(Token(KLifetime(<<"'", "a">>), Sp(4, 6, "call")), "Joint")>>)
    \/ IntoTreesLoop
    \/ IntoTreesReturn
    \/ FromTokenTree(Punct("-", TRUE, Sp(0, 3, "root")))
    \/ emitted = <<>> /\ ExpandExpr(<<>>, [kind |-> "Path", span |-> Sp(4, 6, "call")])
    \/ LiteralInteger(<<"1">>)
    \/ LiteralSetSpan(Sp(0, 3, "root"))
    \/ IdentNewCall(<<"a">>, Sp(4, 6, "call"), TRUE)
    \/ GroupNew("Brace", <<>>)
    \/ GroupSetSpan(Sp(4, 6, "call"))
    \/ SpanJoin(Sp(0, 3, "root"), Sp(4, 6, "call"))
    \/ SpanResolvedAt(Sp(0, 3, "root"), Sp(10, 12, "def"))
    \/ Len(proc_macro_quoted_spans) < MaxResolverCalls - 2 /\ SpanSaveSpan(Sp(4, 6, "call"))
    \/ SpanRecover(0)
    \/ /\ DiagNodes(diags) < MaxDiagNodes - 1
       /\ DiagnosticNew("Warning", <<"m">>, <<Sp(0, 3, "root")>>)
    \/ /\ DiagNodes(diags) < MaxDiagNodes - 1
       /\ \E diag \in DOMAIN diags : DiagnosticSub(diag, "Help", <<"n">>, <<>>)
    \/ \E diag \in DOMAIN diags : DiagnosticEmit(diag)

SpecServer == InitIdle /\ [][NextServer]_vars

\* C16: the definition-site, call-site and mixed-site spans of a facade are
\* those Rustc::new made of the expansion's data, whatever calls the facade
\* has served since, and globals answers that triple.
C16_GlobalsFixed ==
    LET made == [def_site |-> Sp(ecx.def_site.lo, ecx.def_site.hi, "def"),
                 call_site |-> Sp(ecx.call_site.lo, ecx.call_site.hi, "call"),
                 mixed_site |-> Sp(ecx.call_site.lo, ecx.call_site.hi, "mixed")]
    IN  /\ [def_site |-> def_site, call_site |-> call_site, mixed_site |-> mixed_site] = made
        /\ call.op = "Server::globals" => call.ret = made

C16_Witness ==
    /\ call.op = "Server::globals"
    /\ krate = 2
    /\ call.ret.call_site = Sp(25, 27, "call")
    /\ literal # NoLiteral
    /\ literal.span = Sp(0, 3, "root")
    /\ client_group # NoGroup
    /\ client_group.span.open = Sp(4, 6, "call")
    /\ rebased_spans[0] # NoSpan
    /\ emitted # <<>>
    /\ proc_macro_quoted_spans # <<>>
    /\ symbol_gallery # {}

=============================================================================
